---- MODULE Spec2Model ----
(***************************************************************************)
(* ndn-lite: the TLV packet codec and the signed Data packet layer.        *)
(*                                                                         *)
(* Buffers are sequences of bytes (0..255).  C offsets are 0-based, so the *)
(* byte at C offset o is element o + 1 of the sequence.                    *)
(*                                                                         *)
(* uint32_t values are kept modulo 2^32 in two's complement: a value of    *)
(* 2^31 or more is written as the negative integer v - 2^32, so that 0 - 1 *)
(* is the value 2^32 - 1.  U32Lt is the unsigned order.                    *)
(***************************************************************************)
EXTENDS Integers, Sequences, FiniteSets, TLC

VARIABLES
  pc,      \* position of the caller: which operation ran last
  data,    \* the producer's ndn_data_t
  enc,     \* the ndn_encoder_t handed to the encode call (buffer, offset, capacity)
  ret,     \* the return value of the last encode call
  sign,    \* what the encode call handed to the signing collaborator, and what it did
  wire,    \* the bytes handed to the decode call
  rx,      \* the consumer's ndn_data_t
  dres,    \* the outcome of the last decode call
  nm,      \* the ndn_name_t of the name layer operations
  face,    \* the callback table of the direct face
  call     \* the arguments and the effects of the last call that is no encode or decode

vars == <<pc, data, enc, ret, sign, wire, rx, dres, nm, face, call>>

(***************************************************************************)
(* Bounds of the model                                                     *)
(***************************************************************************)
\* names offered to the operations have at most this many components
MaxComps == 2
\* the encoder capacities tried go up to the packet size plus this slack
MaxSlack == 1
\* at most this many calls that change the name are made in a row
MaxOps == 2
\* the face is destroyed only while at most this many of its entries are in use
MaxStale == 2

(***************************************************************************)
(* Program constants                                                       *)
(***************************************************************************)
TLV_Interest == 5
TLV_Data == 6
TLV_Name == 7
TLV_GenericNameComponent == 8
TLV_MetaInfo == 20
TLV_Content == 21
TLV_SignatureInfo == 22
TLV_SignatureValue == 23
TLV_ContentType == 24
TLV_FreshnessPeriod == 25
TLV_SignatureType == 27
TLV_KeyLocator == 28
TLV_FinalBlockId == 26
TLV_Nonce == 10
TLV_SignedInterestTimestamp == 40
TLV_ValidityPeriod == 253
TLV_NotBefore == 254
TLV_NotAfter == 255
TLV_AC_ENCRYPTED_CONTENT == 130
TLV_AC_ENCRYPTED_PAYLOAD == 132
TLV_AC_AES_IV == 133

NDN_SIG_TYPE_DIGEST_SHA256 == 0
NDN_SIG_TYPE_ECDSA_SHA256 == 3
NDN_SIG_TYPE_HMAC_SHA256 == 4

NDN_NAME_COMPONENTS_SIZE == 10
NDN_NAME_COMPONENT_BUFFER_SIZE == 36
NDN_CONTENT_BUFFER_SIZE == 256
NDN_SIGNATURE_BUFFER_SIZE == 128
NDN_SEC_SHA256_HASH_SIZE == 32
NDN_ASN1_ECDSA_MAX_ENCODED_SIG_SIZE == 72
NDN_ASN1_ECDSA_MIN_ENCODED_SIG_SIZE == 8
NDN_TLV_TYPE_FIELD_MAX_SIZE == 9
NDN_TLV_LENGTH_FIELD_MAX_SIZE == 9
NDN_AES_BLOCK_SIZE == 16
NDN_DIRECT_FACE_CB_ENTRY_SIZE == 5
\* (uint32_t)(-1), as a 32-bit two's-complement representative
NDN_FWD_INVALID_NAME_SIZE == -1

NDN_OVERSIZE == -10
NDN_NAME_INVALID_FORMAT == -11
NDN_WRONG_TLV_TYPE == -12
NDN_BUFFER_UNDERFLOW == -14
NDN_SEC_SIGN_FAILED == -25
NDN_SEC_FAIL_VERIFY == -26
NDN_SEC_UNSUPPORT_SIGN_TYPE == -27
NDN_SEC_WRONG_SIG_SIZE == -28
NDN_FWD_NO_MATCHED_CALLBACK == -35
NDN_FWD_APP_FACE_CB_TABLE_FULL == -39

(***************************************************************************)
(* Byte helpers                                                            *)
(***************************************************************************)
Sub32(a, b) == a - b

Add32(a, b) == a + b

\* a < b as uint32_t values
U32Lt(a, b) == IF (a < 0) = (b < 0) THEN a < b ELSE b < 0

\* n bytes of src starting at C offset off
Slice(src, off, n) == SubSeq(src, off + 1, off + n)

\* memcpy(buf + off, bytes, Len(bytes)), the bytes lying inside buf
WriteAt(buf, off, bytes) ==
  SubSeq(buf, 1, off) \o bytes \o SubSeq(buf, off + Len(bytes) + 1, Len(buf))

\* the sequence f as a tuple of its elements
Tuple(f) == SubSeq(f, 1, Len(f))

Zeros(n) == Tuple([i \in 1..n |-> 0])

(***************************************************************************)
(* Varint codec                                                            *)
(***************************************************************************)
\* of a uint32_t value: the 9-byte form needs a value of 2^32 or more
encoder_get_var_size(v) ==
  IF v >= 0 /\ v < 253 THEN 1
  ELSE IF v >= 0 /\ v < 65536 THEN 3
  ELSE 5

\* the bytes of v as a big-endian number of n bytes
BigEndian(v, n) == Tuple([i \in 1..n |-> (v \div (256 ^ (n - i))) % 256])

VarBytes(v) ==
  IF v >= 0 /\ v < 253 THEN <<v>>
  ELSE IF v >= 0 /\ v < 65536 THEN <<253>> \o BigEndian(v, 2)
  ELSE <<254>> \o BigEndian(v, 4)

encoder_probe_block_size(type, payload_size) ==
  payload_size + encoder_get_var_size(type) + encoder_get_var_size(payload_size)

(***************************************************************************)
(* TLV framing: the encoder                                                *)
(*   buf, max, offset : the ndn_encoder_t                                  *)
(*   rc   : the result of the last append                                  *)
(*   fail : the first negative result any append returned (0: none)        *)
(***************************************************************************)
encoder_init(buf, max) ==
  [buf |-> buf, max |-> max, offset |-> 0, rc |-> 0, fail |-> 0]

EncFail(e, code) ==
  [e EXCEPT !.rc = code, !.fail = IF e.fail = 0 THEN code ELSE e.fail]

encoder_append_raw_buffer_value(e, bytes) ==
  IF e.offset < 0 \/ e.offset + Len(bytes) > e.max
  THEN EncFail(e, NDN_OVERSIZE)
  ELSE [e EXCEPT !.buf = WriteAt(e.buf, e.offset, bytes),
                 !.offset = e.offset + Len(bytes),
                 !.rc = 0]

encoder_append_var(e, v) == encoder_append_raw_buffer_value(e, VarBytes(v))

encoder_append_type(e, type) == encoder_append_var(e, type)

encoder_append_length(e, length) == encoder_append_var(e, length)

encoder_move_forward(e, step) ==
  IF e.offset < 0 \/ e.offset + step > e.max
  THEN EncFail(e, NDN_OVERSIZE)
  ELSE [e EXCEPT !.offset = e.offset + step, !.rc = 0]

\* the bytes appended so far
EncodedBytes(e) == Slice(e.buf, 0, e.offset)

\* The appends a function makes, in their order.  An append is [bytes, then]: then holds
\* for an append the function makes only if the one before it succeeded (it returns the
\* error otherwise: "if (ret < 0) return ret").
AppendRaw(bytes) == [bytes |-> bytes, then |-> FALSE]

ThenAppendRaw(bytes) == [bytes |-> bytes, then |-> TRUE]

AppendVar(v) == AppendRaw(VarBytes(v))

\* one append on the encoder
AppendStep(e, a) ==
  IF a.then /\ e.rc < 0 THEN e ELSE encoder_append_raw_buffer_value(e, a.bytes)

\* the element of a set of one element
TheOne(S) == CHOOSE x \in S : TRUE

\* the appends lo..hi, one after the other: those of the first half, then, on the
\* encoder they leave, those of the second half
RECURSIVE AppendRange(_, _, _, _)
AppendRange(e, appends, lo, hi) ==
  IF lo > hi THEN e
  ELSE IF lo = hi THEN AppendStep(e, appends[lo])
  ELSE TheOne({AppendRange(half, appends, ((lo + hi) \div 2) + 1, hi) :
                 half \in {AppendRange(e, appends, lo, (lo + hi) \div 2)}})

\* the encoder after the appends; its rc is the result of the last one made
AppendAll(e, appends) == AppendRange(e, appends, 1, Len(appends))

(***************************************************************************)
(* TLV framing: the decoder                                                *)
(*   buf, size, offset : the ndn_decoder_t                                 *)
(*   rc   : the result of the last read                                    *)
(*   val  : the value the last read stored (unchanged when it failed)      *)
(*   fail : the first negative result any read returned (0: none)          *)
(***************************************************************************)
decoder_init(buf, size) ==
  [buf |-> buf, size |-> size, offset |-> 0, rc |-> 0, val |-> 0, fail |-> 0]

DecFail(d, code) ==
  [d EXCEPT !.rc = code, !.fail = IF d.fail = 0 THEN code ELSE d.fail]

\* the size of the varint whose first byte is b
VarSizeOfLead(b) == IF b < 253 THEN 1 ELSE IF b = 253 THEN 3 ELSE IF b = 254 THEN 5 ELSE 9

\* (acc << 8) | b as a uint32_t
Shl8(acc, b) ==
  LET low == acc % 16777216
  IN IF low >= 8388608 THEN (low - 16777216) * 256 + b ELSE low * 256 + b

\* the big-endian number, truncated to a uint32_t
RECURSIVE FromBigEndian(_)
FromBigEndian(bytes) ==
  IF Len(bytes) = 0 THEN 0
  ELSE Shl8(FromBigEndian(SubSeq(bytes, 1, Len(bytes) - 1)), bytes[Len(bytes)])

\* reads a varint into val; probe is what the output parameter held before
decoder_get_var(d, probe) ==
  IF d.offset + 1 > d.size
  THEN [DecFail(d, NDN_BUFFER_UNDERFLOW) EXCEPT !.val = probe]
  ELSE LET lead == d.buf[d.offset + 1]
           n == VarSizeOfLead(lead)
       IN IF d.offset + n > d.size
          THEN [DecFail(d, NDN_BUFFER_UNDERFLOW) EXCEPT !.val = probe]
          ELSE [d EXCEPT !.offset = d.offset + n,
                         !.rc = 0,
                         !.val = IF n = 1 THEN lead
                                 ELSE FromBigEndian(Slice(d.buf, d.offset + 1, n - 1))]

decoder_get_type(d, probe) == decoder_get_var(d, probe)

decoder_get_length(d, probe) == decoder_get_var(d, probe)

\* the read succeeded iff rc = 0; the bytes read are Slice(d.buf, d.offset, n)
decoder_get_raw_buffer_value(d, n) ==
  IF n < 0 \/ d.offset + n > d.size
  THEN DecFail(d, NDN_BUFFER_UNDERFLOW)
  ELSE [d EXCEPT !.offset = d.offset + n, !.rc = 0]

decoder_move_backward(d, step) ==
  [d EXCEPT !.offset = Sub32(d.offset, step), !.rc = 0]

(***************************************************************************)
(* Name components                                                         *)
(*   a name_component_t is [type, value]; its size field is Len(value)     *)
(***************************************************************************)
EmptyComponent == [type |-> 0, value |-> <<>>]

name_component_from_buffer(type, bytes) == [type |-> type, value |-> bytes]

\* a generic component holding the characters of a string, given as bytes; the
\* terminating NUL of a C string, when the size counts it, is not part of the component
name_component_from_string(bytes) ==
  name_component_from_buffer(
    TLV_GenericNameComponent,
    IF Len(bytes) > 0 /\ bytes[Len(bytes)] = 0 THEN SubSeq(bytes, 1, Len(bytes) - 1)
    ELSE bytes)

name_component_probe_block_size(c) == encoder_probe_block_size(c.type, Len(c.value))

\* type, length and value, each appended if the one before it was
name_component_appends(c) ==
  <<AppendVar(c.type), ThenAppendRaw(VarBytes(Len(c.value))), ThenAppendRaw(c.value)>>

name_component_tlv_encode(e, c) == AppendAll(e, name_component_appends(c))

\* name_component_tlv_decode once the value has been read into d3
ComponentDecodeValue(d3, offset, c) ==
  IF d3.rc < 0 THEN [d |-> d3, rc |-> d3.rc, comp |-> c]
  ELSE [d |-> d3, rc |-> 0,
        comp |-> [c EXCEPT !.value = Slice(d3.buf, offset, d3.offset - offset)]]

\* name_component_tlv_decode once the length has been read into d2
ComponentDecodeLength(d2, c) ==
  IF d2.rc < 0 THEN [d |-> d2, rc |-> d2.rc, comp |-> c]
  ELSE IF U32Lt(NDN_NAME_COMPONENT_BUFFER_SIZE, d2.val)
       THEN [d |-> DecFail(d2, NDN_OVERSIZE), rc |-> NDN_OVERSIZE, comp |-> c]
  ELSE ComponentDecodeValue(decoder_get_raw_buffer_value(d2, d2.val), d2.offset, c)

\* name_component_tlv_decode once the type has been read into d1
ComponentDecodeType(d1, old) ==
  IF d1.rc < 0 THEN [d |-> d1, rc |-> d1.rc, comp |-> old]
  ELSE ComponentDecodeLength(decoder_get_length(d1, Len(old.value)),
                             [old EXCEPT !.type = d1.val])

\* [d: the decoder after the call, rc: the result, comp: the component slot after it]
name_component_tlv_decode(d, old) == ComponentDecodeType(decoder_get_type(d, old.type), old)

\* 0 iff the two components have the same type and the same bytes
name_component_compare(a, b) ==
  IF a.type # b.type THEN (IF a.type < b.type THEN -1 ELSE 1)
  ELSE IF a.value = b.value THEN 0
  ELSE -1

(***************************************************************************)
(* Names                                                                   *)
(*   an ndn_name_t is [components, components_size]: components has        *)
(*   NDN_NAME_COMPONENTS_SIZE slots, components[i + 1] being C slot i      *)
(***************************************************************************)
EmptySlots == [i \in 1..NDN_NAME_COMPONENTS_SIZE |-> EmptyComponent]

\* the name whose components are the sequence cs (at most NDN_NAME_COMPONENTS_SIZE)
NameOf(cs) ==
  [components |-> [i \in 1..NDN_NAME_COMPONENTS_SIZE |->
                     IF i <= Len(cs) THEN cs[i] ELSE EmptyComponent],
   components_size |-> Len(cs)]

RECURSIVE SumProbe(_, _)
SumProbe(name, n) ==
  IF n = 0 THEN 0
  ELSE SumProbe(name, n - 1) + name_component_probe_block_size(name.components[n])

ndn_name_probe_block_size(name) ==
  encoder_probe_block_size(TLV_Name, SumProbe(name, name.components_size))

\* the appends of the second loop of ndn_name_tlv_encode: the loop returns at the first
\* component whose encoding fails, so every append but the first is made only if the one
\* before it succeeded
NameLoopAppend(name, k) ==
  [name_component_appends(name.components[((k - 1) \div 3) + 1])[((k - 1) % 3) + 1]
     EXCEPT !.then = (k > 1)]

NameLoopAppends(name) ==
  Tuple([k \in 1..(3 * name.components_size) |-> NameLoopAppend(name, k)])

\* the length ndn_name_tlv_encode computes in its first loop
NameValueSize_Mut(name) == SumProbe(name, name.components_size) + name.components_size

NameValueSize(name) == SumProbe(name, name.components_size)

ndn_name_appends(name) ==
  <<AppendVar(TLV_Name), AppendVar(NameValueSize(name))>> \o NameLoopAppends(name)

\* the value returned: the results of the type and length appends are not looked at
NameEncodeResult(e, name) == IF name.components_size = 0 THEN [e EXCEPT !.rc = 0] ELSE e

\* the encoder after the call; its rc is the value returned
ndn_name_tlv_encode(e, name) == NameEncodeResult(AppendAll(e, ndn_name_appends(name)), name)

\* the loop of ndn_name_tlv_decode: [d, rc, comps, counter]
RECURSIVE NameDecodeLoop(_, _, _, _)
\* ... after the component of slot counter was decoded, with result r
NameDecodeNext(r, comps, counter, end) ==
  IF r.rc < 0
  THEN [d |-> r.d, rc |-> r.rc, comps |-> [comps EXCEPT ![counter + 1] = r.comp],
        counter |-> counter]
  ELSE NameDecodeLoop(r.d, [comps EXCEPT ![counter + 1] = r.comp], counter + 1, end)

NameDecodeLoop(d, comps, counter, end) ==
  IF ~U32Lt(d.offset, end) THEN [d |-> d, rc |-> 0, comps |-> comps, counter |-> counter]
  ELSE IF counter >= NDN_NAME_COMPONENTS_SIZE
       THEN [d |-> DecFail(d, NDN_OVERSIZE), rc |-> NDN_OVERSIZE,
             comps |-> comps, counter |-> counter]
  ELSE NameDecodeNext(name_component_tlv_decode(d, comps[counter + 1]), comps, counter, end)

\* ndn_name_tlv_decode once its loop has ended with r
NameDecodeResult(r, name) ==
  IF r.rc < 0
  THEN [d |-> r.d, rc |-> r.rc, name |-> [name EXCEPT !.components = r.comps]]
  ELSE [d |-> r.d, rc |-> 0,
        name |-> [components |-> r.comps, components_size |-> r.counter]]

\* ndn_name_tlv_decode once the length has been read into d2
NameDecodeLength(d2, name) ==
  NameDecodeResult(NameDecodeLoop(d2, name.components, 0, Add32(d2.offset, d2.val)), name)

\* ndn_name_tlv_decode once the type has been read into d1
NameDecodeType(d1, name) ==
  IF d1.val # TLV_Name
  THEN [d |-> DecFail(d1, NDN_WRONG_TLV_TYPE), rc |-> NDN_WRONG_TLV_TYPE, name |-> name]
  ELSE NameDecodeLength(decoder_get_length(d1, 0), name)

\* [d: the decoder after the call, rc: the value returned, name: the name after it]
ndn_name_tlv_decode(d, name) == NameDecodeType(decoder_get_type(d, 0), name)

RECURSIVE ComponentsDiffer(_, _, _)
ComponentsDiffer(lhs, rhs, n) ==
  IF n = 0 THEN FALSE
  ELSE ComponentsDiffer(lhs, rhs, n - 1)
       \/ name_component_compare(lhs.components[n], rhs.components[n]) # 0

ndn_name_compare_Mut(lhs, rhs) ==
  IF lhs.components_size # rhs.components_size THEN -1
  ELSE IF lhs.components_size > 0 /\ ComponentsDiffer(lhs, rhs, 1) THEN -1
  ELSE 0

ndn_name_compare(lhs, rhs) ==
  IF lhs.components_size # rhs.components_size THEN -1
  ELSE IF ComponentsDiffer(lhs, rhs, lhs.components_size) THEN -1
  ELSE 0

ndn_name_is_prefix_of_Mut(lhs, rhs) ==
  IF ComponentsDiffer(lhs, rhs, lhs.components_size) THEN 1
  ELSE 0

\* 0 iff lhs is no longer than rhs (in the unsigned order of the size fields) and its
\* components are those rhs starts with
ndn_name_is_prefix_of(lhs, rhs) ==
  IF U32Lt(rhs.components_size, lhs.components_size) THEN 1
  ELSE IF ComponentsDiffer(lhs, rhs, lhs.components_size) THEN 1
  ELSE 0

\* [name: the name after the call, rc: the value returned]; components is a sequence
\* of size components
ndn_name_init(name, components, size) ==
  IF size <= NDN_NAME_COMPONENTS_SIZE
  THEN [name |-> [components |-> [i \in 1..NDN_NAME_COMPONENTS_SIZE |->
                                    IF i <= size THEN components[i]
                                    ELSE name.components[i]],
                  components_size |-> size],
        rc |-> 0]
  ELSE [name |-> name, rc |-> NDN_OVERSIZE]

\* [name: the name after the call, rc: the value returned]
ndn_name_append_component_Mut(name, component) ==
  [name |-> [components |-> [name.components
                               EXCEPT ![name.components_size + 1] = component],
             components_size |-> name.components_size + 1],
   rc |-> 0]

ndn_name_append_component(name, component) ==
  IF name.components_size + 1 <= NDN_NAME_COMPONENTS_SIZE
  THEN [name |-> [components |-> [name.components
                                    EXCEPT ![name.components_size + 1] = component],
                  components_size |-> name.components_size + 1],
        rc |-> 0]
  ELSE [name |-> name, rc |-> NDN_OVERSIZE]

\* the value name_component_from_string returns for a string of that many bytes
name_component_from_string_result(bytes) ==
  IF Len(name_component_from_string(bytes).value) > NDN_NAME_COMPONENT_BUFFER_SIZE
  THEN NDN_OVERSIZE
  ELSE 0

\* the local component of ndn_name_from_string after name_component_from_string was
\* called on len characters from C index from: its result is not looked at, and the
\* component keeps what the stack held (garbage) when the call failed
StringComponent(string, from, len, garbage) ==
  IF name_component_from_string_result(Slice(string, from, len)) < 0 THEN garbage
  ELSE name_component_from_string(Slice(string, from, len))

\* the loop of ndn_name_from_string, i and last_divider being C indices
RECURSIVE FromStringLoop(_, _, _, _, _)
\* ... the second if of the body, r being the outcome of the first
FromStringLast(r, string, i, last_divider, garbage) ==
  IF r.rc < 0 THEN r
  ELSE IF i = Len(string) - 1
  THEN FromStringLoop(
         ndn_name_append_component(
           r.name, StringComponent(string, last_divider + 1, i - last_divider, garbage)),
         string, i + 1, last_divider, garbage)
  ELSE FromStringLoop(r, string, i + 1, last_divider, garbage)

\* ... the first if of the body
FromStringDivider(r, string, i, last_divider, garbage) ==
  IF string[i + 1] = 47
  THEN FromStringLast(
         ndn_name_append_component(
           r.name, StringComponent(string, last_divider + 1, i - last_divider - 1, garbage)),
         string, i, i, garbage)
  ELSE FromStringLast(r, string, i, last_divider, garbage)

FromStringLoop(r, string, i, last_divider, garbage) ==
  IF r.rc < 0 \/ ~(i < Len(string)) THEN r
  ELSE FromStringDivider(r, string, i, last_divider, garbage)

\* the character at C index i of a NUL-terminated string of Len(string) characters
CharAt(string, i) == IF i < Len(string) THEN string[i + 1] ELSE 0

\* [name: the name after the call, rc: the value returned]; size is Len(string)
ndn_name_from_string(name, string, garbage) ==
  IF CharAt(string, 0) # 47
  THEN [name |-> [name EXCEPT !.components_size = 0], rc |-> NDN_NAME_INVALID_FORMAT]
  ELSE FromStringLoop([name |-> [name EXCEPT !.components_size = 0], rc |-> 0],
                      string, 1, 0, garbage)

(***************************************************************************)
(* Non-negative integer TLVs                                               *)
(***************************************************************************)
encoder_probe_uint_length(v) ==
  IF v <= 255 THEN 1 ELSE IF v <= 65535 THEN 2 ELSE 4

uint_tlv_appends(type, v) ==
  <<AppendVar(type), AppendVar(encoder_probe_uint_length(v)),
    AppendRaw(BigEndian(v, encoder_probe_uint_length(v)))>>

encoder_append_uint_tlv(e, type, v) == AppendAll(e, uint_tlv_appends(type, v))

\* decoder_get_uint_value once the value, which starts at offset, has been read into d2
UintDecodeValue(d2, offset) ==
  IF d2.rc < 0 THEN d2
  ELSE [d2 EXCEPT !.val = FromBigEndian(Slice(d2.buf, offset, d2.offset - offset))]

\* decoder_get_uint_value once the length has been read into d1
UintDecodeLength(d1) ==
  IF d1.rc < 0 THEN d1
  ELSE UintDecodeValue(decoder_get_raw_buffer_value(d1, d1.val), d1.offset)

\* the value of the integer TLV at the decoder, its type already read
decoder_get_uint_value(d) == UintDecodeLength(decoder_get_length(d, 0))

(***************************************************************************)
(* Metainfo                                                                *)
(***************************************************************************)
ndn_metainfo_init ==
  [enable_ContentType |-> 0, content_type |-> 0,
   enable_FreshnessPeriod |-> 0, freshness_period |-> 0,
   enable_FinalBlockId |-> 0, final_block_id |-> EmptyComponent]

MetaValueSize(meta) ==
  (IF meta.enable_ContentType > 0
   THEN encoder_probe_block_size(TLV_ContentType, encoder_probe_uint_length(meta.content_type))
   ELSE 0)
  + (IF meta.enable_FreshnessPeriod > 0
     THEN encoder_probe_block_size(TLV_FreshnessPeriod,
                                   encoder_probe_uint_length(meta.freshness_period))
     ELSE 0)
  + (IF meta.enable_FinalBlockId > 0
     THEN encoder_probe_block_size(TLV_FinalBlockId,
                                   name_component_probe_block_size(meta.final_block_id))
     ELSE 0)

ndn_metainfo_probe_block_size(meta) ==
  encoder_probe_block_size(TLV_MetaInfo, MetaValueSize(meta))

ndn_metainfo_appends(meta) ==
  <<AppendVar(TLV_MetaInfo), AppendVar(MetaValueSize(meta))>>
  \o (IF meta.enable_ContentType > 0
      THEN uint_tlv_appends(TLV_ContentType, meta.content_type)
      ELSE <<>>)
  \o (IF meta.enable_FreshnessPeriod > 0
      THEN uint_tlv_appends(TLV_FreshnessPeriod, meta.freshness_period)
      ELSE <<>>)
  \o (IF meta.enable_FinalBlockId > 0
      THEN <<AppendVar(TLV_FinalBlockId),
             AppendVar(name_component_probe_block_size(meta.final_block_id))>>
           \o name_component_appends(meta.final_block_id)
      ELSE <<>>)

ndn_metainfo_tlv_encode(e, meta) == AppendAll(e, ndn_metainfo_appends(meta))

\* The optional fields are decoded in their fixed order, each by the same steps on
\* c = [d: the decoder, meta: the metainfo so far, rc: the first error so far (0: none)]
FirstError(rc, code) == IF rc < 0 THEN rc ELSE code

\* the field of the given type once its integer value has been decoded into v
MetaFieldUint(v, c, type) ==
  [d |-> v, rc |-> FirstError(c.rc, v.rc),
   meta |-> IF v.rc < 0 THEN c.meta
            ELSE IF type = TLV_ContentType
                 THEN [c.meta EXCEPT !.enable_ContentType = 1, !.content_type = v.val]
            ELSE [c.meta EXCEPT !.enable_FreshnessPeriod = 1, !.freshness_period = v.val]]

\* the final block id once its component has been decoded with result r
MetaFieldComponent(r, c) ==
  [d |-> r.d, rc |-> FirstError(c.rc, r.rc),
   meta |-> IF r.rc < 0 THEN c.meta
            ELSE [c.meta EXCEPT !.enable_FinalBlockId = 1, !.final_block_id = r.comp]]

\* the field of the given type once a type has been read into t: a type of another
\* field is left in the input
MetaFieldType(t, c, type) ==
  IF t.rc < 0 THEN [c EXCEPT !.d = t, !.rc = FirstError(c.rc, t.rc)]
  ELSE IF t.val # type THEN c
  ELSE IF type = TLV_FinalBlockId
       THEN MetaFieldComponent(
              name_component_tlv_decode(decoder_get_length(t, 0), EmptyComponent), c)
  ELSE MetaFieldUint(decoder_get_uint_value(t), c, type)

MetaField(c, end, type) ==
  IF U32Lt(c.d.offset, end) THEN MetaFieldType(decoder_get_type(c.d, 0), c, type) ELSE c

\* [d, rc, meta] after the fields of the block that ends at end
MetaDecodeFields(d, end) ==
  MetaField(
    MetaField(
      MetaField([d |-> d, rc |-> 0, meta |-> ndn_metainfo_init], end, TLV_ContentType),
      end, TLV_FreshnessPeriod),
    end, TLV_FinalBlockId)

\* ndn_metainfo_tlv_decode once the length has been read into d2
MetaDecodeLength(d2) ==
  IF d2.rc < 0 THEN [d |-> d2, rc |-> d2.rc, meta |-> ndn_metainfo_init]
  ELSE MetaDecodeFields(d2, Add32(d2.offset, d2.val))

\* ndn_metainfo_tlv_decode once the type has been read into d1
MetaDecodeType(d1) ==
  IF d1.val # TLV_MetaInfo
  THEN [d |-> DecFail(d1, NDN_WRONG_TLV_TYPE), rc |-> NDN_WRONG_TLV_TYPE,
        meta |-> ndn_metainfo_init]
  ELSE MetaDecodeLength(decoder_get_length(d1, 0))

\* [d: the decoder after the call, rc: the value returned, meta: the metainfo after it]
ndn_metainfo_tlv_decode(d, meta) == MetaDecodeType(decoder_get_type(d, 0))

(***************************************************************************)
(* Signature                                                               *)
(*   sig_value holds the bytes written so far into the sig_value buffer;   *)
(*   the bytes of the buffer after them read as 0                          *)
(***************************************************************************)
SigBytes(sig, n) ==
  Tuple([i \in 1..n |-> IF i <= Len(sig.sig_value) THEN sig.sig_value[i] ELSE 0])

\* an ndn_signature_t nothing has been stored in
BlankSignature ==
  [sig_type |-> 0, sig_value |-> <<>>, sig_size |-> 0,
   key_locator_name |-> NameOf(<<>>),
   enable_SignatureInfoNonce |-> 0, signature_info_nonce |-> 0,
   enable_Timestamp |-> 0, timestamp |-> 0,
   validity_period |-> [not_before |-> Zeros(15), not_after |-> Zeros(15)],
   enable_KeyLocator |-> 0, enable_ValidityPeriod |-> 0]

ndn_signature_init(sig) ==
  [sig EXCEPT !.enable_KeyLocator = 0,
              !.enable_ValidityPeriod = 0,
              !.enable_SignatureInfoNonce = 0,
              !.signature_info_nonce = 0,
              !.enable_Timestamp = 0,
              !.timestamp = 0]

\* [sig: the signature after the call, rc: the value returned]
ndn_signature_set_signature_type(sig, type) ==
  IF type = NDN_SIG_TYPE_DIGEST_SHA256
  THEN [sig |-> [sig EXCEPT !.sig_size = NDN_SEC_SHA256_HASH_SIZE, !.sig_type = type],
        rc |-> 0]
  ELSE IF type = NDN_SIG_TYPE_ECDSA_SHA256
  THEN [sig |-> [sig EXCEPT !.sig_size = NDN_ASN1_ECDSA_MAX_ENCODED_SIG_SIZE,
                            !.sig_type = type],
        rc |-> 0]
  ELSE IF type = NDN_SIG_TYPE_HMAC_SHA256
  THEN [sig |-> [sig EXCEPT !.sig_size = NDN_SEC_SHA256_HASH_SIZE, !.sig_type = type],
        rc |-> 0]
  ELSE [sig |-> sig, rc |-> NDN_SEC_UNSUPPORT_SIGN_TYPE]

\* [sig: the signature after the call, rc: the value returned]; sig_value holds
\* sig_size bytes
ndn_signature_set_signature_Mut(sig, sig_value, sig_size) ==
  IF sig_size > NDN_SIGNATURE_BUFFER_SIZE
  THEN [sig |-> sig, rc |-> NDN_OVERSIZE]
  ELSE IF sig.sig_type = NDN_SIG_TYPE_ECDSA_SHA256 /\ sig_size # 64
  THEN [sig |-> sig, rc |-> NDN_SEC_WRONG_SIG_SIZE]
  ELSE [sig |-> [sig EXCEPT !.sig_size = sig_size,
                            !.sig_value = SubSeq(sig_value, 1, sig_size)],
        rc |-> 0]

ndn_signature_set_signature(sig, sig_value, sig_size) ==
  IF sig_size > NDN_SIGNATURE_BUFFER_SIZE
  THEN [sig |-> sig, rc |-> NDN_OVERSIZE]
  ELSE IF sig.sig_type = NDN_SIG_TYPE_ECDSA_SHA256 /\ sig_size # 64
  THEN [sig |-> sig, rc |-> NDN_SEC_WRONG_SIG_SIZE]
  ELSE IF sig.sig_type = NDN_SIG_TYPE_HMAC_SHA256 /\ sig_size # 32
  THEN [sig |-> sig, rc |-> NDN_SEC_WRONG_SIG_SIZE]
  ELSE IF sig.sig_type = NDN_SIG_TYPE_DIGEST_SHA256 /\ sig_size # 32
  THEN [sig |-> sig, rc |-> NDN_SEC_WRONG_SIG_SIZE]
  ELSE [sig |-> [sig EXCEPT !.sig_size = sig_size,
                            !.sig_value = SubSeq(sig_value, 1, sig_size)],
        rc |-> 0]

ndn_signature_set_key_locator(sig, key_name) ==
  [sig EXCEPT !.enable_KeyLocator = 1, !.key_locator_name = key_name]

SigInfoValueSize(sig) ==
  encoder_probe_block_size(TLV_SignatureType, 1)
  + (IF sig.enable_KeyLocator > 0
     THEN encoder_probe_block_size(TLV_KeyLocator,
                                   ndn_name_probe_block_size(sig.key_locator_name))
     ELSE 0)
  + (IF sig.enable_ValidityPeriod > 0
     THEN encoder_probe_block_size(TLV_ValidityPeriod,
            encoder_probe_block_size(TLV_NotBefore, 15)
            + encoder_probe_block_size(TLV_NotAfter, 15))
     ELSE 0)
  + (IF sig.enable_SignatureInfoNonce > 0 THEN encoder_probe_block_size(TLV_Nonce, 4) ELSE 0)
  + (IF sig.enable_Timestamp > 0
     THEN encoder_probe_block_size(TLV_SignedInterestTimestamp,
                                   encoder_probe_uint_length(sig.timestamp))
     ELSE 0)

ndn_signature_info_probe_block_size(sig) ==
  encoder_probe_block_size(TLV_SignatureInfo, SigInfoValueSize(sig))

ndn_signature_value_probe_block_size(sig) ==
  encoder_probe_block_size(TLV_SignatureValue, sig.sig_size)

ndn_signature_info_appends(sig) ==
  <<AppendVar(TLV_SignatureInfo), AppendVar(SigInfoValueSize(sig)),
    AppendVar(TLV_SignatureType), AppendVar(1), AppendRaw(<<sig.sig_type>>)>>
  \o (IF sig.enable_KeyLocator > 0
      THEN <<AppendVar(TLV_KeyLocator),
             AppendVar(ndn_name_probe_block_size(sig.key_locator_name))>>
           \o ndn_name_appends(sig.key_locator_name)
      ELSE <<>>)
  \o (IF sig.enable_ValidityPeriod > 0
      THEN <<AppendVar(TLV_ValidityPeriod),
             AppendVar(encoder_probe_block_size(TLV_NotBefore, 15)
                       + encoder_probe_block_size(TLV_NotAfter, 15)),
             AppendVar(TLV_NotBefore), AppendVar(15),
             AppendRaw(sig.validity_period.not_before),
             AppendVar(TLV_NotAfter), AppendVar(15),
             AppendRaw(sig.validity_period.not_after)>>
      ELSE <<>>)
  \o (IF sig.enable_SignatureInfoNonce > 0
      THEN <<AppendVar(TLV_Nonce), AppendVar(4),
             AppendRaw(BigEndian(sig.signature_info_nonce, 4))>>
      ELSE <<>>)
  \o (IF sig.enable_Timestamp > 0
      THEN uint_tlv_appends(TLV_SignedInterestTimestamp, sig.timestamp)
      ELSE <<>>)

\* the value returned is the first error of an append, if any
SigInfoEncodeResult(e) == [e EXCEPT !.rc = e.fail]

ndn_signature_info_tlv_encode(e, sig) ==
  SigInfoEncodeResult(AppendAll(e, ndn_signature_info_appends(sig)))

ndn_signature_value_appends(sig) ==
  <<AppendVar(TLV_SignatureValue), AppendVar(sig.sig_size),
    AppendRaw(SigBytes(sig, sig.sig_size))>>

ndn_signature_value_tlv_encode(e, sig) == AppendAll(e, ndn_signature_value_appends(sig))

\* The sub-TLVs after the signature type, up to end, on
\* c = [d: the decoder, sig: the signature so far, rc: the error that ended the loop]
RECURSIVE SigInfoFields(_, _)
\* the sub-TLV of the given type once its value, which starts at offset, was read into v;
\* the validity period and unknown sub-TLVs are stepped over
SigInfoFieldValue(v, offset, type, c, end) ==
  IF v.rc < 0 THEN [c EXCEPT !.d = v, !.rc = v.rc]
  ELSE SigInfoFields(
         [d |-> v, rc |-> 0,
          sig |-> IF type = TLV_Nonce
                  THEN [c.sig EXCEPT !.enable_SignatureInfoNonce = 1,
                                     !.signature_info_nonce =
                                        FromBigEndian(Slice(v.buf, offset, v.offset - offset))]
                  ELSE IF type = TLV_SignedInterestTimestamp
                  THEN [c.sig EXCEPT !.enable_Timestamp = 1,
                                     !.timestamp =
                                        FromBigEndian(Slice(v.buf, offset, v.offset - offset))]
                  ELSE IF type = TLV_ValidityPeriod
                  THEN [c.sig EXCEPT !.enable_ValidityPeriod = 1]
                  ELSE c.sig],
         end)

\* the key locator once its name has been decoded with result n
SigInfoKeyLocator(n, c, end) ==
  SigInfoFields(
    [d |-> n.d, rc |-> IF n.rc < 0 THEN n.rc ELSE 0,
     sig |-> [c.sig EXCEPT !.key_locator_name = n.name, !.enable_KeyLocator = 1]],
    end)

\* the sub-TLV of the given type once its length has been read into l
SigInfoFieldLength(l, type, c, end) ==
  IF l.rc < 0 THEN [c EXCEPT !.d = l, !.rc = l.rc]
  ELSE IF type = TLV_KeyLocator
       THEN SigInfoKeyLocator(ndn_name_tlv_decode(l, c.sig.key_locator_name), c, end)
  ELSE SigInfoFieldValue(decoder_get_raw_buffer_value(l, l.val), l.offset, type, c, end)

\* a sub-TLV once its type has been read into t
SigInfoFieldType(t, c, end) ==
  IF t.rc < 0 THEN [c EXCEPT !.d = t, !.rc = t.rc]
  ELSE SigInfoFieldLength(decoder_get_length(t, 0), t.val, c, end)

SigInfoFields(c, end) ==
  IF c.rc < 0 \/ ~U32Lt(c.d.offset, end) THEN c
  ELSE SigInfoFieldType(decoder_get_type(c.d, 0), c, end)

\* ndn_signature_info_tlv_decode once the value of the signature type, which starts at
\* offset, has been read into t3
SigInfoDecodeSigTypeValue(t3, offset, end, s0) ==
  IF t3.rc < 0 THEN [d |-> t3, rc |-> t3.rc, sig |-> s0]
  ELSE SigInfoFields(
         [d |-> t3, rc |-> 0,
          sig |-> IF t3.offset > offset THEN [s0 EXCEPT !.sig_type = t3.buf[offset + 1]]
                  ELSE s0],
         end)

\* ... once the length of the signature type has been read into t2
SigInfoDecodeSigTypeLength(t2, end, s0) ==
  IF t2.rc < 0 THEN [d |-> t2, rc |-> t2.rc, sig |-> s0]
  ELSE SigInfoDecodeSigTypeValue(decoder_get_raw_buffer_value(t2, t2.val), t2.offset,
                                 end, s0)

\* ... once the type of the first sub-TLV has been read into t1
SigInfoDecodeSigType(t1, end, s0) ==
  IF t1.val # TLV_SignatureType
  THEN [d |-> DecFail(t1, NDN_WRONG_TLV_TYPE), rc |-> NDN_WRONG_TLV_TYPE, sig |-> s0]
  ELSE SigInfoDecodeSigTypeLength(decoder_get_length(t1, 0), end, s0)

\* ... once the length of the block has been read into d2
SigInfoDecodeLength(d2, s0) ==
  IF d2.rc < 0 THEN [d |-> d2, rc |-> d2.rc, sig |-> s0]
  ELSE SigInfoDecodeSigType(decoder_get_type(d2, 0), Add32(d2.offset, d2.val), s0)

\* ... once the type of the block has been read into d1
SigInfoDecodeType(d1, s0) ==
  IF d1.val # TLV_SignatureInfo
  THEN [d |-> DecFail(d1, NDN_WRONG_TLV_TYPE), rc |-> NDN_WRONG_TLV_TYPE, sig |-> s0]
  ELSE SigInfoDecodeLength(decoder_get_length(d1, 0), s0)

\* [d: the decoder after the call, rc: the value returned, sig: the signature after it]
ndn_signature_info_tlv_decode(d, sig) ==
  SigInfoDecodeType(decoder_get_type(d, 0), ndn_signature_init(sig))

\* ndn_signature_value_tlv_decode once the value, which starts at offset, was read into d3
SigValueDecodeValue(d3, offset, sig) ==
  IF d3.rc < 0 THEN [d |-> d3, rc |-> d3.rc, sig |-> sig]
  ELSE [d |-> d3, rc |-> 0,
        sig |-> [sig EXCEPT !.sig_value = Slice(d3.buf, offset, d3.offset - offset)]]

\* ... once the length has been read into d2: sig_size is set before the value is read
SigValueDecodeLength(d2, sig) ==
  IF d2.rc < 0 THEN [d |-> d2, rc |-> d2.rc, sig |-> sig]
  ELSE IF U32Lt(NDN_SIGNATURE_BUFFER_SIZE, d2.val)
       THEN [d |-> DecFail(d2, NDN_OVERSIZE), rc |-> NDN_OVERSIZE, sig |-> sig]
  ELSE SigValueDecodeValue(decoder_get_raw_buffer_value(d2, d2.val), d2.offset,
                           [sig EXCEPT !.sig_size = d2.val])

\* ... once the type has been read into d1
SigValueDecodeType(d1, sig) ==
  IF d1.val # TLV_SignatureValue
  THEN [d |-> DecFail(d1, NDN_WRONG_TLV_TYPE), rc |-> NDN_WRONG_TLV_TYPE, sig |-> sig]
  ELSE SigValueDecodeLength(decoder_get_length(d1, 0), sig)

\* [d: the decoder after the call, rc: the value returned, sig: the signature after it]
ndn_signature_value_tlv_decode(d, sig) == SigValueDecodeType(decoder_get_type(d, 0), sig)

(***************************************************************************)
(* Crypto collaborators                                                    *)
(*   Only their contracts are modelled: a signature is a function of the   *)
(*   message and the key, and verification recomputes it.  The digest is a *)
(*   two-byte checksum of the message followed by bytes derived from it.   *)
(***************************************************************************)
\* the sum of msg[lo..hi] modulo 256, the weight of byte i being 1 or i
RECURSIVE RangeSum(_, _, _, _)
RangeSum(msg, lo, hi, weighted) ==
  IF lo > hi THEN 0
  ELSE IF lo = hi THEN ((IF weighted THEN lo ELSE 1) * msg[lo]) % 256
  ELSE LET mid == (lo + hi) \div 2
       IN (RangeSum(msg, lo, mid, weighted) + RangeSum(msg, mid + 1, hi, weighted)) % 256

ByteSum(msg, n) == RangeSum(msg, 1, n, FALSE)

WeightedSum(msg, n) == RangeSum(msg, 1, n, TRUE)

\* n bytes determined by the message and the secret
Tag(msg, secret, n) ==
  LET h1 == (ByteSum(msg, Len(msg)) + secret) % 256
      h2 == WeightedSum(msg, Len(msg))
  IN Tuple([i \in 1..n |-> IF i = 1 THEN h1 ELSE IF i = 2 THEN h2 ELSE (h1 + h2 + i) % 256])

\* [rc, sig_value: the bytes written (none when it fails)]
ndn_sha256_sign(msg, result) ==
  IF result < 0 THEN [rc |-> result, out |-> <<>>]
  ELSE [rc |-> 0, out |-> Tag(msg, 0, NDN_SEC_SHA256_HASH_SIZE)]

ndn_sha256_verify(msg, sig, sig_size) ==
  IF sig_size = NDN_SEC_SHA256_HASH_SIZE /\ sig = Tag(msg, 0, NDN_SEC_SHA256_HASH_SIZE)
  THEN 0 ELSE NDN_SEC_FAIL_VERIFY

ndn_hmac_sign(msg, key, result) ==
  IF result < 0 THEN [rc |-> result, out |-> <<>>]
  ELSE [rc |-> 0, out |-> Tag(msg, key.secret, NDN_SEC_SHA256_HASH_SIZE)]

ndn_hmac_verify(msg, sig, sig_size, key) ==
  IF sig_size = NDN_SEC_SHA256_HASH_SIZE
     /\ sig = Tag(msg, key.secret, NDN_SEC_SHA256_HASH_SIZE)
  THEN 0 ELSE NDN_SEC_FAIL_VERIFY

\* the signer chooses the length of the ASN.1 encoding: [rc, out, sig_len]
ndn_ecdsa_sign(msg, key, result, len) ==
  IF result < 0 THEN [rc |-> result, out |-> <<>>, sig_len |-> 0]
  ELSE [rc |-> 0, out |-> Tag(msg, key.secret, len), sig_len |-> len]

ndn_ecdsa_verify(msg, sig, sig_size, key) ==
  IF sig_size >= NDN_ASN1_ECDSA_MIN_ENCODED_SIG_SIZE
     /\ sig_size <= NDN_ASN1_ECDSA_MAX_ENCODED_SIG_SIZE
     /\ sig = Tag(msg, key.secret, sig_size)
  THEN 0 ELSE NDN_SEC_FAIL_VERIFY

(***************************************************************************)
(* Data packets: encoding                                                  *)
(*   an ndn_data_t is [name, metainfo, content_value, content_size,        *)
(*   signature]; content_value holds the bytes stored in the buffer        *)
(***************************************************************************)
ContentBytes(d) ==
  Tuple([i \in 1..d.content_size |->
           IF i <= Len(d.content_value) THEN d.content_value[i] ELSE 0])

\* name, metainfo, content and signature info; no result is looked at
UnsignedBlockAppends(d) ==
  ndn_name_appends(d.name)
  \o ndn_metainfo_appends(d.metainfo)
  \o <<AppendVar(TLV_Content), AppendVar(d.content_size), AppendRaw(ContentBytes(d))>>
  \o ndn_signature_info_appends(d.signature)

\* the encoder after the call; the call itself returns 0 whatever the appends returned
ndn_data_prepare_unsigned_block(e, d) ==
  [AppendAll(e, UnsignedBlockAppends(d)) EXCEPT !.rc = 0]

\* components[pos] = c; a pos outside the array stores nothing in the name
SetSlot(name, pos, c) ==
  IF pos < NDN_NAME_COMPONENTS_SIZE
  THEN [name EXCEPT !.components[pos + 1] = c]
  ELSE name

KEY_COMPONENT == name_component_from_string(<<75, 69, 89, 0>>)

\* the data after the call
prepare_signature_info(d, signature_type, producer_identity, key_id) ==
  LET raw_key_id == BigEndian(key_id, 4)
      s1 == ndn_signature_init(d.signature)
      s2 == ndn_signature_set_signature_type(s1, signature_type).sig
      s3 == ndn_signature_set_key_locator(s2, producer_identity)
      pos1 == s3.key_locator_name.components_size
      n1 == [SetSlot(s3.key_locator_name, pos1, KEY_COMPONENT)
               EXCEPT !.components_size = pos1 + 1]
      pos2 == n1.components_size
      n2 == [SetSlot(n1, pos2,
                     name_component_from_buffer(TLV_GenericNameComponent, raw_key_id))
               EXCEPT !.components_size = pos2 + 1]
  IN [d EXCEPT !.signature = [s3 EXCEPT !.key_locator_name = n2]]

\* the outer length of the digest and HMAC paths, the signature's type being set
DataBufferSize_Mut(d) ==
  ndn_name_probe_block_size(d.name)
  + ndn_metainfo_probe_block_size(d.metainfo)
  + encoder_probe_block_size(TLV_Content, d.content_size)
  + ndn_signature_info_probe_block_size(d.signature)
  + d.signature.sig_size

DataBufferSize(d) ==
  ndn_name_probe_block_size(d.name)
  + ndn_metainfo_probe_block_size(d.metainfo)
  + encoder_probe_block_size(TLV_Content, d.content_size)
  + ndn_signature_info_probe_block_size(d.signature)
  + ndn_signature_value_probe_block_size(d.signature)

\* What an encode call did, for the properties:
\*   e, d, ret       : the encoder and the data after the call, the value returned
\*   L               : the outer length it computed
\*   afterL          : the encoder offset after the outer length field was written
\*   s, t, msg       : the range [s, t) handed to the signer and its bytes
\*   signer          : the signer's result
\*   sigAppended     : ndn_signature_value_tlv_encode was called
\*   offsets         : the values the call assigned to encoder->offset itself
\*   oob             : the call accessed the buffer outside [0, capacity)
EncodeOutcome(e, d, r, L, afterL, s, t, msg, signer, sigAppended, offsets, oob) ==
  [e |-> e, d |-> d, ret |-> r, L |-> L, afterL |-> afterL, s |-> s, t |-> t,
   msg |-> msg, signer |-> signer, sigAppended |-> sigAppended,
   offsets |-> offsets, oob |-> oob]

\* the bytes of [s, t) the signer reads; a byte outside the buffer reads as 0
SignInput(e, s, t) ==
  Tuple([i \in 1..(IF t > s THEN t - s ELSE 0) |->
           IF s + i <= Len(e.buf) THEN e.buf[s + i] ELSE 0])

\* the data once the signer has stored out in its signature
WithSignatureValue(d, out) == [d EXCEPT !.signature.sig_value = out]

\* the end of the digest and HMAC paths without the test of the signer's result
SignedOutcome_Mut(e2, s, msg, sg, d1) ==
  EncodeOutcome(
    ndn_signature_value_tlv_encode(e2, WithSignatureValue(d1, sg.out).signature),
    WithSignatureValue(d1, sg.out), 0, DataBufferSize(d1), s, s, e2.offset, msg,
    sg.rc, TRUE, {}, FALSE)

\* The end of the digest and HMAC paths: the signer, given msg = [s, t), returned sg;
\* e2 is the encoder after the unsigned block, d1 the data, its signature info set
SignedOutcome(e2, s, msg, sg, d1) ==
  IF sg.rc < 0
  THEN EncodeOutcome(e2, d1, sg.rc, DataBufferSize(d1), s, s, e2.offset, msg, sg.rc,
                     FALSE, {}, FALSE)
  ELSE EncodeOutcome(
         ndn_signature_value_tlv_encode(e2, WithSignatureValue(d1, sg.out).signature),
         WithSignatureValue(d1, sg.out), 0, DataBufferSize(d1), s, s, e2.offset, msg,
         sg.rc, TRUE, {}, FALSE)

\* ndn_data_tlv_encode_digest_sign from the signing on: e2 is the encoder after the
\* unsigned block, s is sign_input_starting
DigestSignSign(e2, s, msg, d1, result) ==
  SignedOutcome(e2, s, msg, ndn_sha256_sign(msg, result), d1)

\* ... from the reading of the signed range on: e2 is the encoder after the unsigned block
DigestSignBlock(e2, s, d1, result) ==
  DigestSignSign(e2, s, SignInput(e2, s, e2.offset), d1, result)

\* ... from the unsigned block on: e1 is the encoder after the outer type and length
DigestSignHeader(e1, d1, result) ==
  DigestSignBlock(ndn_data_prepare_unsigned_block(e1, d1), e1.offset, d1, result)

\* ... from the computation of data_buffer_size on: d1 is the data, its signature type set
DigestSignSize(e, d1, result) ==
  DigestSignHeader(
    encoder_append_length(encoder_append_type(e, TLV_Data), DataBufferSize(d1)),
    d1, result)

ndn_data_tlv_encode_digest_sign(e, d0, result) ==
  DigestSignSize(
    e,
    [d0 EXCEPT !.signature =
       ndn_signature_set_signature_type(ndn_signature_init(d0.signature),
                                        NDN_SIG_TYPE_DIGEST_SHA256).sig],
    result)

\* ndn_data_tlv_encode_hmac_sign from the signing on
HmacSignSign(e2, s, msg, d1, hmac_key, result) ==
  SignedOutcome(e2, s, msg, ndn_hmac_sign(msg, hmac_key, result), d1)

\* ... from the reading of the signed range on
HmacSignBlock(e2, s, d1, hmac_key, result) ==
  HmacSignSign(e2, s, SignInput(e2, s, e2.offset), d1, hmac_key, result)

\* ... from the unsigned block on
HmacSignHeader(e1, d1, hmac_key, result) ==
  HmacSignBlock(ndn_data_prepare_unsigned_block(e1, d1), e1.offset, d1, hmac_key, result)

\* ... from the computation of data_buffer_size on
HmacSignSize(e, d1, hmac_key, result) ==
  HmacSignHeader(
    encoder_append_length(encoder_append_type(e, TLV_Data), DataBufferSize(d1)),
    d1, hmac_key, result)

ndn_data_tlv_encode_hmac_sign(e, d0, producer_identity, hmac_key, result) ==
  HmacSignSize(
    e,
    prepare_signature_info(d0, NDN_SIG_TYPE_HMAC_SHA256, producer_identity,
                           hmac_key.key_id),
    hmac_key, result)

\* memmove(buf + dst, buf + src, n) on a buffer of Len(buf) bytes; a byte read from
\* outside the buffer is whatever lies there (garbage), a byte written outside it is
\* not part of the buffer
Memmove(buf, dst, src, n, garbage) ==
  Tuple([i \in 1..Len(buf) |->
           IF i > dst /\ i <= dst + n
           THEN (IF src + (i - dst) <= Len(buf) THEN buf[src + (i - dst)] ELSE garbage)
           ELSE buf[i]])

MemmoveOutOfBounds(buf, dst, src, n) ==
  n > 0 /\ (src + n > Len(buf) \/ dst + n > Len(buf))

\* the outer length of the ECDSA path
EcdsaDataBufferSize(d, sig_len) ==
  Add32(ndn_name_probe_block_size(d.name)
        + ndn_metainfo_probe_block_size(d.metainfo)
        + encoder_probe_block_size(TLV_Content, d.content_size)
        + ndn_signature_info_probe_block_size(d.signature),
        sig_len)

\* the encoder offset at which the ECDSA path emits the signature value
EcdsaSignatureOffset(offset, type_size, length_size, data_buffer_size, sig_len, initial_offset) ==
  offset + type_size + length_size + data_buffer_size - sig_len - initial_offset + 1

\* the room left for the outer type and length
InitialOffset == NDN_TLV_TYPE_FIELD_MAX_SIZE + NDN_TLV_LENGTH_FIELD_MAX_SIZE

\* data_tlv_type_field_size + data_tlv_length_field_size
EcdsaHeaderSize(L) == encoder_get_var_size(TLV_Data) + encoder_get_var_size(L)

\* the offset assigned before the outer length is appended
EcdsaLengthOffset(s, L) == Sub32(s, encoder_get_var_size(L))

\* the offset assigned before the outer type is appended
EcdsaTypeOffset(offset, L) == Sub32(offset, EcdsaHeaderSize(L))

\* ndn_data_tlv_encode_ecdsa_sign after the memmove: e4 is the encoder, oob whether the
\* memmove left the buffer, o152 the offset assigned before the outer type, [s, t) the
\* signed range and msg its bytes, sg the signer's result, L data_buffer_size
EcdsaSignValue(e4, oob, o152, s, t, msg, sg, d1, L) ==
  IF sg.rc < 0
  THEN EncodeOutcome(e4, d1, sg.rc, L, EcdsaHeaderSize(L), s, t, msg, sg.rc, FALSE,
                     {EcdsaLengthOffset(s, L), o152}, oob)
  ELSE EncodeOutcome(
         ndn_signature_value_tlv_encode(
           [e4 EXCEPT !.offset =
              EcdsaSignatureOffset(e4.offset, encoder_get_var_size(TLV_Data),
                                   encoder_get_var_size(L), L, sg.sig_len, InitialOffset)],
           [WithSignatureValue(d1, sg.out).signature EXCEPT !.sig_size = sg.sig_len]),
         [WithSignatureValue(d1, sg.out) EXCEPT !.signature.sig_size = sg.sig_len],
         0, L, EcdsaHeaderSize(L), s, t, msg, sg.rc, TRUE,
         {EcdsaLengthOffset(s, L), o152,
          EcdsaSignatureOffset(e4.offset, encoder_get_var_size(TLV_Data),
                               encoder_get_var_size(L), L, sg.sig_len, InitialOffset)},
         oob)

\* ... from the memmove on: e3 is the encoder after the outer type was appended
EcdsaSignMove(e3, o152, s, t, msg, sg, d1, L, garbage) ==
  EcdsaSignValue(
    [e3 EXCEPT !.buf = Memmove(e3.buf, 0, InitialOffset - EcdsaHeaderSize(L),
                               Add32(EcdsaHeaderSize(L), L), garbage)],
    MemmoveOutOfBounds(e3.buf, 0, InitialOffset - EcdsaHeaderSize(L),
                       Add32(EcdsaHeaderSize(L), L)),
    o152, s, t, msg, sg, d1, L)

\* ... from the outer type on: e2 is the encoder after the outer length was appended
EcdsaSignType(e2, s, t, msg, sg, d1, L, garbage) ==
  EcdsaSignMove(
    encoder_append_type([e2 EXCEPT !.offset = EcdsaTypeOffset(e2.offset, L)], TLV_Data),
    EcdsaTypeOffset(e2.offset, L), s, t, msg, sg, d1, L, garbage)

\* ... from the outer length on: e1 is the encoder after the unsigned block
EcdsaSignLength(e1, s, msg, sg, d1, L, garbage) ==
  EcdsaSignType(
    encoder_append_length([e1 EXCEPT !.offset = EcdsaLengthOffset(s, L)], L),
    s, e1.offset, msg, sg, d1, L, garbage)

\* ... from the computation of data_buffer_size on
EcdsaSignSize(e1, s, msg, sg, d1, garbage) ==
  EcdsaSignLength(e1, s, msg, sg, d1, EcdsaDataBufferSize(d1, sg.sig_len), garbage)

\* ... from the signing on
EcdsaSignSign(e1, s, msg, d1, prv_key, result, len, garbage) ==
  EcdsaSignSize(e1, s, msg, ndn_ecdsa_sign(msg, prv_key, result, len), d1, garbage)

\* ... from the reading of the signed range on: e1 is the encoder after the unsigned block
EcdsaSignBlock(e1, s, d1, prv_key, result, len, garbage) ==
  EcdsaSignSign(e1, s, SignInput(e1, s, e1.offset), d1, prv_key, result, len, garbage)

\* ... from the unsigned block on: e0 is the encoder moved forward
EcdsaSignForward(e0, d1, prv_key, result, len, garbage) ==
  EcdsaSignBlock(ndn_data_prepare_unsigned_block(e0, d1), e0.offset, d1, prv_key, result,
                 len, garbage)

ndn_data_tlv_encode_ecdsa_sign(e, d0, producer_identity, prv_key, result, len, garbage) ==
  EcdsaSignForward(
    encoder_move_forward(e, InitialOffset),
    prepare_signature_info(d0, NDN_SIG_TYPE_ECDSA_SHA256, producer_identity,
                           prv_key.key_id),
    prv_key, result, len, garbage)

(***************************************************************************)
(* Data packets: decoding                                                  *)
(***************************************************************************)
\* The part the four decode functions share, from decoder_init to the decoding of the
\* signature value.  probe0 is what the uninitialised local probe holds.
\*   early      : the value returned by the switch on the type after metainfo (0: none)
\*   d          : the data after it
\*   s, t       : input_starting and input_ending
\*   svrc       : what ndn_signature_value_tlv_decode returned
\*   stepFailed : a decoding step returned an error
\*   probe      : the type the switch looked at;  typeRead: it was read from the input
\*   offType    : the decoder offset after that type was read
\*   offBranch  : the decoder offset after the switch
\*   contentLen : the length read in the TLV_Content branch
\*   rawRead    : the content bytes were read
\*   sigDecoded : the signature info and value decoders were called
\* It is computed step by step; g = [s, failed, probe, typeRead, offType] is what the
\* steps before the switch found.
\* the body left by a return inside the switch, the decoder being dec
DecodeEarly(code, dec, g, contentLen, d) ==
  [early |-> code, d |-> d, s |-> g.s, t |-> g.s, svrc |-> 0, stepFailed |-> g.failed,
   probe |-> g.probe, typeRead |-> g.typeRead, offType |-> g.offType,
   offBranch |-> dec.offset, contentLen |-> contentLen, rawRead |-> FALSE,
   sigDecoded |-> FALSE]

\* the body once the signature value has been decoded with result sv
DecodeResult(sv, t, siFailed, offBranch, g, contentLen, rawRead, d) ==
  [early |-> 0, d |-> [d EXCEPT !.signature = sv.sig], s |-> g.s, t |-> t,
   svrc |-> sv.rc, stepFailed |-> g.failed \/ siFailed \/ sv.rc < 0,
   probe |-> g.probe, typeRead |-> g.typeRead, offType |-> g.offType,
   offBranch |-> offBranch, contentLen |-> contentLen, rawRead |-> rawRead,
   sigDecoded |-> TRUE]

\* ... once the signature info has been decoded with result si
DecodeSignatureValue(si, offBranch, g, contentLen, rawRead, d) ==
  DecodeResult(ndn_signature_value_tlv_decode(si.d, si.sig), si.d.offset, si.rc < 0,
               offBranch, g, contentLen, rawRead, d)

\* ... after the switch, the decoder being cb
DecodeSignatureInfo(cb, g, contentLen, rawRead, d) ==
  DecodeSignatureValue(ndn_signature_info_tlv_decode(cb, d.signature), cb.offset, g,
                       contentLen, rawRead, d)

\* case TLV_Content, once the content bytes have been read into r: a read that fails
\* stores nothing
DecodeContentValue(r, l, g, d) ==
  DecodeSignatureInfo(r, g, l.val, l.rc = 0 /\ r.rc = 0,
                      [d EXCEPT !.content_size = l.val,
                                !.content_value =
                                   IF r.rc = 0 THEN Slice(l.buf, l.offset, l.val) ELSE @])

\* case TLV_Content, once the length has been read into l
DecodeContentLength(l, g, d) ==
  IF U32Lt(NDN_CONTENT_BUFFER_SIZE, l.val) THEN DecodeEarly(NDN_OVERSIZE, l, g, l.val, d)
  ELSE DecodeContentValue(decoder_get_raw_buffer_value(l, l.val), l, g, d)

\* the switch without the step back in the TLV_SignatureInfo case
DecodeSwitch_Mut(t, g, d) ==
  IF g.probe = TLV_Content
  THEN DecodeContentLength(decoder_get_length(t, g.probe), g, d)
  ELSE IF g.probe = TLV_SignatureInfo
       THEN DecodeSignatureInfo(t, g, 0, FALSE, [d EXCEPT !.content_size = 0])
  ELSE DecodeEarly(NDN_WRONG_TLV_TYPE, t, g, 0, d)

\* switch (probe), the type having been read into t
DecodeSwitch(t, g, d) ==
  IF g.probe = TLV_Content
  THEN DecodeContentLength(decoder_get_length(t, g.probe), g, d)
  ELSE IF g.probe = TLV_SignatureInfo
       THEN DecodeSignatureInfo(decoder_move_backward(t, 1), g, 0, FALSE,
                                [d EXCEPT !.content_size = 0])
  ELSE DecodeEarly(NDN_WRONG_TLV_TYPE, t, g, 0, d)

\* ... once the type after metainfo has been read into t
DecodeContentType(t, s, failed, d) ==
  DecodeSwitch(t, [s |-> s, failed |-> failed, probe |-> t.val, typeRead |-> t.rc = 0,
                   offType |-> t.offset], d)

\* ... once metainfo has been decoded with result m
DecodeMetaInfo(m, s, probe, failed, d) ==
  DecodeContentType(decoder_get_type(m.d, probe), s, failed \/ m.rc < 0,
                    [d EXCEPT !.metainfo = m.meta])

\* ... once the name has been decoded with result n
DecodeName(n, s, probe, failed, d) ==
  DecodeMetaInfo(ndn_metainfo_tlv_decode(n.d, d.metainfo), s, probe, failed \/ n.rc < 0,
                 [d EXCEPT !.name = n.name])

\* ... once the outer length has been read into c2: input_starting is its offset
DecodeOuterLength(c2, failed, d0) ==
  DecodeName(ndn_name_tlv_decode(c2, d0.name), c2.offset, c2.val, failed \/ c2.rc < 0, d0)

\* ... once the outer type has been read into c1
DecodeOuterType(c1, d0) == DecodeOuterLength(decoder_get_length(c1, c1.val), c1.rc < 0, d0)

DecodeBody(buf, d0, probe0) ==
  DecodeOuterType(decoder_get_type(decoder_init(buf, Len(buf)), probe0), d0)

\* the bytes of [s, t) of the input handed to the verifier
VerifyInput(buf, s, t) == IF t > s THEN SubSeq(buf, s + 1, t) ELSE <<>>

\* What a decode call did, for the properties: the body's record, and
\*   ret           : the value returned
\*   verifyInvoked : the verification collaborator was called
\*   msg           : the bytes it was given
DecodeOutcome(b, r, verifyInvoked, msg) ==
  [d |-> b.d, ret |-> r, verifyInvoked |-> verifyInvoked, msg |-> msg,
   s |-> b.s, t |-> b.t, early |-> b.early, svrc |-> b.svrc, stepFailed |-> b.stepFailed,
   probe |-> b.probe, typeRead |-> b.typeRead, offType |-> b.offType,
   offBranch |-> b.offBranch, contentLen |-> b.contentLen, rawRead |-> b.rawRead,
   sigDecoded |-> b.sigDecoded]

\* the signature bytes handed to the verifier
VerifySignature(b) == SigBytes(b.d.signature, b.d.signature.sig_size)

NoVerifyResult(b) ==
  IF b.early < 0 THEN DecodeOutcome(b, b.early, FALSE, <<>>)
  ELSE DecodeOutcome(b, IF b.svrc < 0 THEN b.svrc ELSE 0, FALSE, <<>>)

ndn_data_tlv_decode_no_verify(d0, block_value, probe0) ==
  NoVerifyResult(DecodeBody(block_value, d0, probe0))

DigestVerifyCall(b, msg) ==
  DecodeOutcome(b, ndn_sha256_verify(msg, VerifySignature(b), b.d.signature.sig_size),
                TRUE, msg)

DigestVerifyResult(b, block_value) ==
  IF b.early < 0 THEN DecodeOutcome(b, b.early, FALSE, <<>>)
  ELSE DigestVerifyCall(b, VerifyInput(block_value, b.s, b.t))

ndn_data_tlv_decode_digest_verify(d0, block_value, probe0) ==
  DigestVerifyResult(DecodeBody(block_value, d0, probe0), block_value)

EcdsaVerifyCall(b, msg, pub_key) ==
  DecodeOutcome(b, ndn_ecdsa_verify(msg, VerifySignature(b), b.d.signature.sig_size,
                                    pub_key),
                TRUE, msg)

EcdsaVerifyResult(b, block_value, pub_key) ==
  IF b.early < 0 THEN DecodeOutcome(b, b.early, FALSE, <<>>)
  ELSE EcdsaVerifyCall(b, VerifyInput(block_value, b.s, b.t), pub_key)

ndn_data_tlv_decode_ecdsa_verify(d0, block_value, pub_key, probe0) ==
  EcdsaVerifyResult(DecodeBody(block_value, d0, probe0), block_value, pub_key)

HmacVerifyCall(b, msg, hmac_key) ==
  DecodeOutcome(b, ndn_hmac_verify(msg, VerifySignature(b), b.d.signature.sig_size,
                                   hmac_key),
                TRUE, msg)

HmacVerifyResult(b, block_value, hmac_key) ==
  IF b.early < 0 THEN DecodeOutcome(b, b.early, FALSE, <<>>)
  ELSE HmacVerifyCall(b, VerifyInput(block_value, b.s, b.t), hmac_key)

ndn_data_tlv_decode_hmac_verify(d0, block_value, hmac_key, probe0) ==
  HmacVerifyResult(DecodeBody(block_value, d0, probe0), block_value, hmac_key)

(***************************************************************************)
(* Data packets: the encrypted content envelope                            *)
(*   content_value is the whole buffer of NDN_CONTENT_BUFFER_SIZE bytes    *)
(***************************************************************************)
\* the value a uint8_t parameter gets from a uint32_t argument
U8(v) == v % 256

\* the AES-CBC collaborator: the ciphertext of a plaintext is one block longer than the
\* plaintext and is determined by plaintext, IV and key
CipherText(plain, aes_iv, key) ==
  Tuple([i \in 1..NDN_AES_BLOCK_SIZE |-> (aes_iv[i] + key.secret) % 256])
  \o Tuple([i \in 1..Len(plain) |-> (plain[i] + aes_iv[1] + key.secret) % 256])

\* ndn_aes_cbc_encrypt: [rc, out: the bytes written at the start of the output buffer];
\* nothing is written when the output buffer cannot take the ciphertext
ndn_aes_cbc_encrypt(input, input_size, output_size, aes_iv, key) ==
  IF U8(input_size) + NDN_AES_BLOCK_SIZE > U8(output_size)
  THEN [rc |-> NDN_OVERSIZE, out |-> <<>>]
  ELSE [rc |-> 0, out |-> CipherText(SubSeq(input, 1, U8(input_size)), aes_iv, key)]

\* v_size of ndn_data_set_encrypted_content
EncryptedValueSize(content_size, key_id) ==
  ndn_name_probe_block_size(key_id)
  + encoder_probe_block_size(TLV_AC_AES_IV, NDN_AES_BLOCK_SIZE)
  + encoder_probe_block_size(TLV_AC_ENCRYPTED_PAYLOAD, content_size + NDN_AES_BLOCK_SIZE)

\* the appends ndn_data_set_encrypted_content makes before it encrypts; it looks at the
\* result of none of them
EnvelopeAppends(content_size, key_id, aes_iv) ==
  <<AppendVar(TLV_AC_ENCRYPTED_CONTENT), AppendVar(EncryptedValueSize(content_size, key_id))>>
  \o ndn_name_appends(key_id)
  \o <<AppendVar(TLV_AC_AES_IV), AppendVar(NDN_AES_BLOCK_SIZE), AppendRaw(aes_iv),
       AppendVar(TLV_AC_ENCRYPTED_PAYLOAD), AppendVar(content_size + NDN_AES_BLOCK_SIZE)>>

\* ndn_data_set_encrypted_content once the encoder e stands where the payload goes and
\* the collaborator has returned c: the offset advances by the content_size the record
\* held before the call
EncryptedContentSet(dt, e, c) ==
  [data |-> [dt EXCEPT !.content_value = WriteAt(e.buf, e.offset, c.out),
                         !.content_size = e.offset + dt.content_size
                                          + NDN_AES_BLOCK_SIZE],
   rc |-> 0, payload_offset |-> e.offset, encrypt |-> c]

\* ndn_data_set_encrypted_content once the encoder e stands where the payload goes
EncryptPayload(dt, e, content_value, content_size, aes_iv, key) ==
  EncryptedContentSet(
    dt, e,
    ndn_aes_cbc_encrypt(content_value, content_size, e.max - e.offset, aes_iv, key))

\* [data: the record after the call, rc: the value returned, payload_offset: where the
\*  ciphertext goes, encrypt: what the collaborator returned]
ndn_data_set_encrypted_content(dt, content_value, content_size, key_id, aes_iv, key) ==
  IF EncryptedValueSize(content_size, key_id) > NDN_CONTENT_BUFFER_SIZE
  THEN [data |-> dt, rc |-> NDN_OVERSIZE, payload_offset |-> 0,
        encrypt |-> [rc |-> 0, out |-> <<>>]]
  ELSE EncryptPayload(
         dt,
         AppendAll(encoder_init(Zeros(NDN_CONTENT_BUFFER_SIZE), NDN_CONTENT_BUFFER_SIZE),
                   EnvelopeAppends(content_size, key_id, aes_iv)),
         content_value, content_size, aes_iv, key)

\* the bytes of buf from offset on that ndn_aes_cbc_decrypt is given, as far as they
\* lie in the buffer
DecryptInput(buf, offset, size) ==
  IF offset < 0 \/ offset >= Len(buf) THEN <<>>
  ELSE SubSeq(buf, offset + 1,
              IF offset + U8(size) > Len(buf) THEN Len(buf) ELSE offset + U8(size))

\* ndn_data_parse_encrypted_content once the length of the payload has been read into
\* d7: probe is d7.val
ParsePayload(d7, r) ==
  [r EXCEPT !.rc = 0,
            !.content_used_size = Sub32(d7.val, NDN_AES_BLOCK_SIZE),
            !.decrypt_offset = d7.offset,
            !.decrypt_size = U8(d7.val),
            !.decrypt_output_size = U8(Sub32(d7.val, NDN_AES_BLOCK_SIZE)),
            !.payload_length = d7.val,
            !.decrypt_input = DecryptInput(d7.buf, d7.offset, d7.val),
            !.out_of_buffer = (d7.offset < 0 \/ d7.offset + U8(d7.val) > Len(d7.buf))]

\* ... once the IV has been read into d5, d4 being the decoder before that read
ParseIv(d5, d4, r) ==
  ParsePayload(
    decoder_get_length(decoder_get_type(d5, d4.val), decoder_get_type(d5, d4.val).val),
    [r EXCEPT !.aes_iv = IF d5.rc = 0 THEN Slice(d5.buf, d4.offset, NDN_AES_BLOCK_SIZE)
                         ELSE @])

\* ... once the type of the IV has been read into d3
ParseIvLength(d4, r) ==
  ParseIv(decoder_get_raw_buffer_value(d4, NDN_AES_BLOCK_SIZE), d4, r)

\* ... once the key-id name has been decoded with outcome n, probe holding the length
\* read before it
ParseKeyId(n, probe, r) ==
  ParseIvLength(
    decoder_get_length(decoder_get_type(n.d, probe), decoder_get_type(n.d, probe).val),
    [r EXCEPT !.key_id = n.name])

\* ... once the outer type has been read into d1
ParseOuterType(d1, r) ==
  IF d1.val # TLV_AC_ENCRYPTED_CONTENT THEN [r EXCEPT !.rc = NDN_WRONG_TLV_TYPE]
  ELSE ParseKeyId(ndn_name_tlv_decode(decoder_get_length(d1, d1.val), r.key_id),
                  decoder_get_length(d1, d1.val).val, r)

\* [rc: the value returned, key_id, aes_iv, content_used_size: the output parameters
\*  after the call, payload_length: the length read from TLV_AC_ENCRYPTED_PAYLOAD,
\*  decrypt_*: what ndn_aes_cbc_decrypt was given, decrypt_size and decrypt_output_size
\*  being the sizes as its uint8_t parameters receive them (no call: -1)]
ndn_data_parse_encrypted_content(dt, key_id, aes_iv, content_used_size) ==
  ParseOuterType(
    decoder_get_type(decoder_init(dt.content_value, dt.content_size), 0),
    [rc |-> 0, key_id |-> key_id, aes_iv |-> aes_iv,
     content_used_size |-> content_used_size,
     decrypt_offset |-> 0, decrypt_size |-> -1, decrypt_output_size |-> -1,
     payload_length |-> 0, decrypt_input |-> <<>>, out_of_buffer |-> FALSE])

(***************************************************************************)
(* Inputs offered to the operations                                        *)
(***************************************************************************)
\* the i-th component of the pool: i letters, "a", "ab", "abc", ...
PoolComponent(i) == name_component_from_string(Tuple([j \in 1..i |-> 96 + j]))

\* the names /a, /a/ab, ... of 0..MaxComps components
PrefixNames == {NameOf([i \in 1..k |-> PoolComponent(i)]) : k \in 0..MaxComps}

\* a name of NDN_NAME_COMPONENTS_SIZE components of NDN_NAME_COMPONENT_BUFFER_SIZE bytes:
\* its TLV_Name length takes three bytes
LongName ==
  NameOf([i \in 1..NDN_NAME_COMPONENTS_SIZE |->
            name_component_from_string(
              Tuple([j \in 1..NDN_NAME_COMPONENT_BUFFER_SIZE |-> 64 + i]))])

\* every name of at most MaxComps components drawn from the first three of the pool,
\* and a name that fills all NDN_NAME_COMPONENTS_SIZE slots
AllNames ==
  UNION {{NameOf(cs) : cs \in [1..k -> {PoolComponent(i) : i \in 1..3}]} : k \in 0..MaxComps}
  \cup {NameOf([i \in 1..NDN_NAME_COMPONENTS_SIZE |-> PoolComponent(1 + (i % 3))]),
        LongName}

Metas ==
  {ndn_metainfo_init,
   [ndn_metainfo_init EXCEPT !.enable_ContentType = 1, !.content_type = 0,
                             !.enable_FreshnessPeriod = 1, !.freshness_period = 4000,
                             !.enable_FinalBlockId = 1, !.final_block_id = PoolComponent(1)]}

ContentSizes == {0, 3, 200}

ContentOf(n) == Tuple([i \in 1..n |-> (7 * i + 1) % 256])

BlankData ==
  [name |-> NameOf(<<>>), metainfo |-> ndn_metainfo_init,
   content_value |-> <<>>, content_size |-> 0, signature |-> BlankSignature]

\* the consumer's record before a decode call: it holds an earlier packet
StaleData ==
  [BlankData EXCEPT !.name = NameOf(<<PoolComponent(3)>>),
                    !.content_value = <<9, 9, 9, 9, 9>>, !.content_size = 5]

DataInputs ==
  {[BlankData EXCEPT !.name = n, !.metainfo = m,
                     !.content_value = ContentOf(c), !.content_size = c] :
     n \in PrefixNames, m \in Metas, c \in ContentSizes}

Keys == {[key_id |-> 16909060, secret |-> 1], [key_id |-> 84281096, secret |-> 2]}

SigningKey == [key_id |-> 16909060, secret |-> 1]

Identities == {NameOf(<<>>), NameOf(<<PoolComponent(2)>>)}

SignerResults == {0, NDN_SEC_SIGN_FAILED}

EcdsaSigLens == {70, NDN_ASN1_ECDSA_MAX_ENCODED_SIG_SIZE}

GarbageBytes == {0, 255}

BigCapacity == 420

\* the size of the packet a call is to produce, its signature taking sig_size bytes
PacketSize(d, sig_info_size, sig_size) ==
  LET body == ndn_name_probe_block_size(d.name)
              + ndn_metainfo_probe_block_size(d.metainfo)
              + encoder_probe_block_size(TLV_Content, d.content_size)
              + sig_info_size
              + encoder_probe_block_size(TLV_SignatureValue, sig_size)
  IN encoder_probe_block_size(TLV_Data, body)

\* capacities around the size needed, a capacity smaller than the ECDSA gap, a large one
Capacities(need) ==
  {10, need - 1, need, BigCapacity} \cup {need + k : k \in 1..MaxSlack}

NoEncode ==
  [suite |-> "none", L |-> 0, afterL |-> 0, s |-> 0, t |-> 0, msg |-> <<>>, signer |-> 0,
   sigAppended |-> FALSE, offsets |-> {}, oob |-> FALSE, need |-> 0, key |-> SigningKey,
   before |-> BlankSignature, fail |-> 0, cap |-> 0]

NoDecode ==
  [variant |-> "none", ret |-> 0, verifyInvoked |-> FALSE, msg |-> <<>>, s |-> 0, t |-> 0,
   early |-> 0, svrc |-> 0, stepFailed |-> FALSE, probe |-> 0, typeRead |-> FALSE,
   offType |-> 0, offBranch |-> 0, contentLen |-> 0, rawRead |-> FALSE,
   sigDecoded |-> FALSE, key |-> SigningKey, before |-> BlankData, from |-> "none"]

(***************************************************************************)
(* The direct face                                                         *)
(*   an ndn_direct_face_t is [cb_entries]: NDN_DIRECT_FACE_CB_ENTRY_SIZE   *)
(*   entries [interest_name, is_prefix, on_data, on_timeout, on_interest], *)
(*   cb_entries[i + 1] being C entry i; a callback is named by a string    *)
(***************************************************************************)
NULL == "NULL"

\* an entry of the zero-initialised static direct_face
ZeroEntry ==
  [interest_name |-> NameOf(<<>>), is_prefix |-> 0,
   on_data |-> NULL, on_timeout |-> NULL, on_interest |-> NULL]

\* the loop started at entry 1
InvalidateEntries_Mut(f) ==
  [f EXCEPT !.cb_entries =
     [i \in 1..NDN_DIRECT_FACE_CB_ENTRY_SIZE |->
        IF i = 1 THEN f.cb_entries[i]
        ELSE [f.cb_entries[i] EXCEPT !.interest_name.components_size =
                                       NDN_FWD_INVALID_NAME_SIZE]]]

\* the loop of ndn_direct_face_construct and of ndn_direct_face_destroy
InvalidateEntries(f) ==
  [f EXCEPT !.cb_entries =
     [i \in 1..NDN_DIRECT_FACE_CB_ENTRY_SIZE |->
        [f.cb_entries[i] EXCEPT !.interest_name.components_size =
                                  NDN_FWD_INVALID_NAME_SIZE]]]

\* the static direct_face after ndn_direct_face_construct
FaceConstructed ==
  InvalidateEntries([cb_entries |-> [i \in 1..NDN_DIRECT_FACE_CB_ENTRY_SIZE |-> ZeroEntry]])

\* C index of the first entry from i on whose name has the invalid size, or
\* NDN_DIRECT_FACE_CB_ENTRY_SIZE when there is none
RECURSIVE FirstFree(_, _)
FirstFree(f, i) ==
  IF i >= NDN_DIRECT_FACE_CB_ENTRY_SIZE THEN NDN_DIRECT_FACE_CB_ENTRY_SIZE
  ELSE IF f.cb_entries[i + 1].interest_name.components_size = NDN_FWD_INVALID_NAME_SIZE
  THEN i
  ELSE FirstFree(f, i + 1)

ExpressInterestAt_Mut(f, i, interest_name, interest, on_data, on_interest_timeout) ==
  IF i >= NDN_DIRECT_FACE_CB_ENTRY_SIZE
  THEN [face |-> f, rc |-> NDN_FWD_APP_FACE_CB_TABLE_FULL, received |-> <<interest>>]
  ELSE [face |-> [f EXCEPT !.cb_entries[i + 1] =
                    [interest_name |-> interest_name, is_prefix |-> 0,
                     on_data |-> on_data, on_timeout |-> on_interest_timeout,
                     on_interest |-> NULL]],
        rc |-> 0, received |-> <<interest>>]

\* ndn_direct_face_express_interest once its loop has stopped at entry i
\* [face: the table after the call, rc: the value returned,
\*  received: the packets handed to ndn_face_receive]
ExpressInterestAt(f, i, interest_name, interest, on_data, on_interest_timeout) ==
  IF i >= NDN_DIRECT_FACE_CB_ENTRY_SIZE
  THEN [face |-> f, rc |-> NDN_FWD_APP_FACE_CB_TABLE_FULL, received |-> <<>>]
  ELSE [face |-> [f EXCEPT !.cb_entries[i + 1] =
                    [interest_name |-> interest_name, is_prefix |-> 0,
                     on_data |-> on_data, on_timeout |-> on_interest_timeout,
                     on_interest |-> NULL]],
        rc |-> 0, received |-> <<interest>>]

ndn_direct_face_express_interest(f, interest_name, interest, on_data, on_interest_timeout) ==
  ExpressInterestAt(f, FirstFree(f, 0), interest_name, interest, on_data,
                    on_interest_timeout)

\* ndn_direct_face_register_prefix once its loop has stopped at entry i
\* [face: the table after the call, rc: the value returned,
\*  fib: the prefixes handed to ndn_forwarder_fib_insert]
RegisterPrefixAt(f, i, prefix_name, on_interest) ==
  IF i >= NDN_DIRECT_FACE_CB_ENTRY_SIZE
  THEN [face |-> f, rc |-> NDN_FWD_APP_FACE_CB_TABLE_FULL, fib |-> <<>>]
  ELSE [face |-> [f EXCEPT !.cb_entries[i + 1] =
                    [interest_name |-> prefix_name, is_prefix |-> 1,
                     on_data |-> NULL, on_timeout |-> NULL,
                     on_interest |-> on_interest]],
        rc |-> 0, fib |-> <<prefix_name>>]

ndn_direct_face_register_prefix(f, prefix_name, on_interest) ==
  RegisterPrefixAt(f, FirstFree(f, 0), prefix_name, on_interest)

\* the loop of ndn_direct_face_send from entry i on
\* [rc: the value returned, invoked: the callbacks called, each with its entry]
RECURSIVE SendLoop(_, _, _, _)
SendLoop(f, name, isInterest, i) ==
  IF i >= NDN_DIRECT_FACE_CB_ENTRY_SIZE
  THEN [rc |-> NDN_FWD_NO_MATCHED_CALLBACK, invoked |-> <<>>]
  ELSE IF /\ f.cb_entries[i + 1].is_prefix = isInterest
          /\ isInterest = 0
          /\ ndn_name_compare(f.cb_entries[i + 1].interest_name, name) = 0
  THEN [rc |-> 0,
        invoked |-> <<[entry |-> i, member |-> "on_data",
                       callback |-> f.cb_entries[i + 1].on_data]>>]
  ELSE IF /\ f.cb_entries[i + 1].is_prefix = isInterest
          /\ isInterest = 1
          /\ ndn_name_is_prefix_of(f.cb_entries[i + 1].interest_name, name) = 0
  THEN [rc |-> 0,
        invoked |-> <<[entry |-> i, member |-> "on_interest",
                       callback |-> f.cb_entries[i + 1].on_interest]>>]
  ELSE SendLoop(f, name, isInterest, i + 1)

SendPacketType_Mut(f, name, probe) ==
  IF probe # TLV_Interest /\ probe # TLV_Data THEN [rc |-> 1, invoked |-> <<>>]
  ELSE IF name = <<>> THEN [rc |-> 1, invoked |-> <<>>]
  ELSE SendLoop(f, name[1], IF probe = TLV_Interest THEN 1 ELSE 0, 1)

\* ndn_direct_face_send once the type of the packet has been read into probe; name is
\* the sequence of the name pointed to, empty for a NULL pointer
SendPacketType(f, name, probe) ==
  IF probe # TLV_Interest /\ probe # TLV_Data THEN [rc |-> 1, invoked |-> <<>>]
  ELSE IF name = <<>> THEN [rc |-> 1, invoked |-> <<>>]
  ELSE SendLoop(f, name[1], IF probe = TLV_Interest THEN 1 ELSE 0, 0)

ndn_direct_face_send(f, name, packet) ==
  SendPacketType(f, name, decoder_get_type(decoder_init(packet, Len(packet)), 0).val)

\* no call was made yet: op names the function called, before holds what the call could
\* change as it was before the call, in its arguments, out its results and step the
\* number of calls that could change it since the start
NoCall == [op |-> "none", rc |-> 0, before |-> <<>>, in |-> <<>>, out |-> <<>>, step |-> 0]

(***************************************************************************)
(* The producer: one action per encode function                            *)
(***************************************************************************)
Init ==
  /\ pc = "idle"
  /\ data = BlankData
  /\ enc = encoder_init(<<>>, 0)
  /\ ret = 0
  /\ sign = NoEncode
  /\ wire = <<>>
  /\ rx = StaleData
  /\ dres = NoDecode
  /\ nm = NameOf(<<>>)
  /\ face = FaceConstructed
  /\ call = NoCall

\* the state after an encode call whose outcome is o
Encoded(o, suite, need, key, before) ==
  /\ pc' = "encoded"
  /\ data' = o.d
  /\ enc' = o.e
  /\ ret' = o.ret
  /\ sign' = [suite |-> suite, L |-> o.L, afterL |-> o.afterL, s |-> o.s, t |-> o.t,
              msg |-> o.msg, signer |-> o.signer, sigAppended |-> o.sigAppended,
              offsets |-> o.offsets, oob |-> o.oob, need |-> need, key |-> key,
              before |-> before, fail |-> o.e.fail, cap |-> o.e.max]
  /\ UNCHANGED <<wire, rx, dres, nm, face, call>>

EncodeDigest ==
  /\ pc = "idle"
  /\ \E d \in DataInputs, result \in SignerResults :
       LET need == PacketSize(d, encoder_probe_block_size(TLV_SignatureInfo,
                                   encoder_probe_block_size(TLV_SignatureType, 1)),
                              NDN_SEC_SHA256_HASH_SIZE)
       IN \E cap \in Capacities(need) :
            Encoded(ndn_data_tlv_encode_digest_sign(encoder_init(Zeros(cap), cap), d, result),
                    "digest", need, SigningKey, d.signature)

EncodeHmac ==
  /\ pc = "idle"
  /\ \E d \in DataInputs, id \in Identities, result \in SignerResults :
       LET si == ndn_signature_info_probe_block_size(
                   prepare_signature_info(d, NDN_SIG_TYPE_HMAC_SHA256, id,
                                          SigningKey.key_id).signature)
           need == PacketSize(d, si, NDN_SEC_SHA256_HASH_SIZE)
       IN \E cap \in Capacities(need) :
            Encoded(ndn_data_tlv_encode_hmac_sign(encoder_init(Zeros(cap), cap), d, id,
                                                  SigningKey, result),
                    "hmac", need, SigningKey, d.signature)

EncodeEcdsa ==
  /\ pc = "idle"
  /\ \E d \in DataInputs, id \in Identities, result \in SignerResults,
        len \in EcdsaSigLens, garbage \in GarbageBytes :
       LET si == ndn_signature_info_probe_block_size(
                   prepare_signature_info(d, NDN_SIG_TYPE_ECDSA_SHA256, id,
                                          SigningKey.key_id).signature)
           need == PacketSize(d, si, len)
       IN \E cap \in Capacities(need) :
            Encoded(ndn_data_tlv_encode_ecdsa_sign(encoder_init(Zeros(cap), cap), d, id,
                                                   SigningKey, result, len, garbage),
                    "ecdsa", need, SigningKey, d.signature)

\* the caller is done with the packet
Reset ==
  /\ pc # "idle"
  /\ pc' = "idle"
  /\ data' = BlankData
  /\ enc' = encoder_init(<<>>, 0)
  /\ ret' = 0
  /\ sign' = NoEncode
  /\ wire' = <<>>
  /\ rx' = StaleData
  /\ dres' = NoDecode
  /\ nm' = NameOf(<<>>)
  /\ call' = NoCall
  /\ UNCHANGED face

(***************************************************************************)
(* The network between producer and consumer                               *)
(***************************************************************************)
\* the caller transmits the packet of an encode call that returned 0
Send ==
  /\ pc = "encoded"
  /\ ret = 0
  /\ enc.offset >= 0 /\ enc.offset <= enc.max
  /\ pc' = "sent"
  /\ wire' = EncodedBytes(enc)
  /\ enc' = encoder_init(<<>>, 0)
  /\ UNCHANGED <<data, ret, sign, rx, dres, nm, face, call>>

\* the packet arrives without its last byte
Truncate ==
  /\ pc = "sent"
  /\ Len(wire) > 0
  /\ pc' = "cut"
  /\ wire' = SubSeq(wire, 1, Len(wire) - 1)
  /\ UNCHANGED <<data, enc, ret, sign, rx, dres, nm, face, call>>

\* a packet that verified arrives a second time, without its last byte, and is decoded
\* into the record that holds the first
Retransmit ==
  /\ pc = "decoded"
  /\ dres.from = "sent" /\ dres.verifyInvoked /\ dres.ret = 0
  /\ pc' = "resent"
  /\ wire' = SubSeq(wire, 1, Len(wire) - 1)
  /\ UNCHANGED <<data, enc, ret, sign, rx, dres, nm, face, call>>

\* what stands between metainfo and signature info in a packet of another producer:
\* nothing, a content header declaring NDN_CONTENT_BUFFER_SIZE + 1 bytes, one declaring
\* NDN_CONTENT_BUFFER_SIZE bytes that do not follow, an element of another type
ForeignElements == {<<>>, <<21, 253, 1, 1>>, <<21, 253, 1, 0>>, <<5, 0>>}

\* the packet whose name, metainfo, content element and signature info are body
ForeignFrame(body) ==
  VarBytes(TLV_Data)
  \o VarBytes(Len(body) + encoder_probe_block_size(TLV_SignatureValue,
                                                   NDN_SEC_SHA256_HASH_SIZE))
  \o body
  \o <<TLV_SignatureValue, NDN_SEC_SHA256_HASH_SIZE>>
  \o Tag(body, 0, NDN_SEC_SHA256_HASH_SIZE)

\* a digest-signed packet with element x where the content element stands
ForeignPacket(name, meta, x) ==
  ForeignFrame(
    EncodedBytes(
      AppendAll(
        encoder_init(Zeros(BigCapacity), BigCapacity),
        ndn_name_appends(name) \o ndn_metainfo_appends(meta) \o <<AppendRaw(x)>>
        \o ndn_signature_info_appends(
             ndn_signature_set_signature_type(BlankSignature,
                                              NDN_SIG_TYPE_DIGEST_SHA256).sig))))

Receive ==
  /\ pc = "idle"
  /\ \E n \in PrefixNames, m \in Metas, x \in ForeignElements :
       wire' = ForeignPacket(n, m, x)
  /\ pc' = "foreign"
  /\ UNCHANGED <<data, enc, ret, sign, rx, dres, nm, face, call>>

(***************************************************************************)
(* The consumer: one action per decode function                            *)
(***************************************************************************)
Decodable == pc \in {"sent", "cut", "resent", "foreign"}

\* what the uninitialised local probe may hold; it is read only when the first read fails
UninitProbe ==
  IF decoder_get_type(decoder_init(wire, Len(wire)), 0).rc < 0
  THEN {0, TLV_Content, TLV_SignatureInfo}
  ELSE {0}

\* the state after a decode call whose outcome is o
Decoded(o, variant, key) ==
  /\ pc' = "decoded"
  /\ rx' = o.d
  /\ dres' = [variant |-> variant, ret |-> o.ret, verifyInvoked |-> o.verifyInvoked,
              msg |-> o.msg, s |-> o.s, t |-> o.t, early |-> o.early, svrc |-> o.svrc,
              stepFailed |-> o.stepFailed, probe |-> o.probe, typeRead |-> o.typeRead,
              offType |-> o.offType, offBranch |-> o.offBranch,
              contentLen |-> o.contentLen, rawRead |-> o.rawRead,
              sigDecoded |-> o.sigDecoded, key |-> key, before |-> rx, from |-> pc]
  /\ UNCHANGED <<data, enc, ret, sign, wire, nm, face, call>>

DecodeNoVerify ==
  /\ Decodable
  /\ \E probe0 \in UninitProbe :
       Decoded(ndn_data_tlv_decode_no_verify(rx, wire, probe0), "none", SigningKey)

DecodeDigestVerify ==
  /\ Decodable
  /\ \E probe0 \in UninitProbe :
       Decoded(ndn_data_tlv_decode_digest_verify(rx, wire, probe0), "digest", SigningKey)

DecodeEcdsaVerify ==
  /\ Decodable
  /\ \E probe0 \in UninitProbe, key \in Keys :
       Decoded(ndn_data_tlv_decode_ecdsa_verify(rx, wire, key, probe0), "ecdsa", key)

DecodeHmacVerify ==
  /\ Decodable
  /\ \E probe0 \in UninitProbe, key \in Keys :
       Decoded(ndn_data_tlv_decode_hmac_verify(rx, wire, key, probe0), "hmac", key)

Next ==
  \/ EncodeDigest
  \/ EncodeHmac
  \/ EncodeEcdsa
  \/ Send
  \/ Truncate
  \/ Retransmit
  \/ Receive
  \/ DecodeNoVerify
  \/ DecodeDigestVerify
  \/ DecodeEcdsaVerify
  \/ DecodeHmacVerify
  \/ Reset

Spec == Init /\ [][Next]_vars

(***************************************************************************)
(* The name layer on its own                                               *)
(***************************************************************************)
\* ndn_name_tlv_encode of a name into a fresh encoder
NameEncode ==
  /\ pc = "idle"
  /\ \E n \in AllNames : \E cap \in Capacities(ndn_name_probe_block_size(n)) :
       /\ nm' = n
       /\ enc' = ndn_name_tlv_encode(encoder_init(Zeros(cap), cap), n)
  /\ ret' = enc'.rc
  /\ pc' = "name_encoded"
  /\ UNCHANGED <<data, sign, wire, rx, dres, face, call>>

\* ndn_name_from_block of the bytes an encode call that returned 0 wrote, or of those
\* bytes without the last one, into the consumer's name
NameDecode ==
  /\ pc = "name_encoded"
  /\ ret = 0
  /\ \E cut \in {0, 1} :
       /\ enc.offset >= cut
       /\ wire' = SubSeq(enc.buf, 1, enc.offset - cut)
       /\ dres' = [NoDecode EXCEPT !.variant = "name", !.before = rx,
                                   !.from = IF cut = 0 THEN "name_encoded" ELSE "cut"]
  /\ rx' = [rx EXCEPT !.name = ndn_name_tlv_decode(decoder_init(wire', Len(wire')), @).name]
  /\ ret' = ndn_name_tlv_decode(decoder_init(wire', Len(wire')), rx.name).rc
  /\ pc' = "name_decoded"
  /\ UNCHANGED <<data, enc, sign, nm, face, call>>

NextName ==
  \/ NameEncode
  \/ NameDecode
  \/ Reset

SpecName == Init /\ [][NextName]_vars

(***************************************************************************)
(* The name layer: its operations applied, in any order, to one name       *)
(***************************************************************************)
\* the component arrays handed to ndn_name_init: up to MaxComps components, as many
\* as a name can hold, and one more
InitArrays ==
  {Tuple([i \in 1..k |-> PoolComponent(1 + (i % 2))]) : k \in 0..MaxComps}
  \cup {Tuple([i \in 1..k |-> PoolComponent(1)]) :
          k \in {NDN_NAME_COMPONENTS_SIZE, NDN_NAME_COMPONENTS_SIZE + 1}}

\* the strings of '/' (47) and 'a' (97) of at most MaxComps + 1 characters
SlashStrings == UNION {[1..k -> {47, 97}] : k \in 0..(MaxComps + 1)}

\* "hello/world", "/hello/world", a segment one character longer than a component
\* can hold, and one segment more than a name can hold
NameStrings ==
  SlashStrings
  \cup {<<104, 101, 108, 108, 111, 47, 119, 111, 114, 108, 100>>,
        <<47, 104, 101, 108, 108, 111, 47, 119, 111, 114, 108, 100>>,
        <<47>> \o Tuple([j \in 1..(NDN_NAME_COMPONENT_BUFFER_SIZE + 1) |-> 120]),
        Tuple([j \in 1..(2 * (NDN_NAME_COMPONENTS_SIZE + 1)) |->
                 IF j % 2 = 1 THEN 47 ELSE 97])}

\* what the stack may hold where ndn_name_from_string keeps its local component
Garbages == {EmptyComponent, name_component_from_buffer(TLV_GenericNameComponent, <<103>>)}

\* the bytes ndn_name_tlv_encode writes for a name
NameWire(n) ==
  SubSeq(ndn_name_tlv_encode(encoder_init(Zeros(BigCapacity), BigCapacity), n).buf,
         1, ndn_name_probe_block_size(n))

\* a TLV_Name of NDN_NAME_COMPONENTS_SIZE + 1 components of one byte
OverfullWire ==
  <<TLV_Name, 3 * (NDN_NAME_COMPONENTS_SIZE + 1)>>
  \o Tuple([j \in 1..(3 * (NDN_NAME_COMPONENTS_SIZE + 1)) |->
              <<TLV_GenericNameComponent, 1, 97>>[1 + ((j - 1) % 3)]])

\* a TLV_Name that declares 2 bytes, followed by a component of 3 bytes
ShortLengthWire == <<TLV_Name, 2, TLV_GenericNameComponent, 1, 97>>

\* the encodings of the names of at most MaxComps components, those encodings without
\* their last byte, a TLV_Name of NDN_NAME_COMPONENTS_SIZE + 1 components, and a
\* TLV_Name whose last component ends behind the declared length
NameWires ==
  {NameWire(n) : n \in PrefixNames}
  \cup {SubSeq(NameWire(n), 1, Len(NameWire(n)) - 1) : n \in PrefixNames}
  \cup {OverfullWire, ShortLengthWire}

\* the names ndn_name_compare and ndn_name_is_prefix_of are given next to nm
OtherNames == PrefixNames \cup {NameOf(<<PoolComponent(2)>>), NameOf(<<>>)}

NameOpInit ==
  /\ pc \in {"idle", "name_op"}
  /\ call.step < MaxOps
  /\ \E cs \in InitArrays :
       /\ nm' = ndn_name_init(nm, cs, Len(cs)).name
       /\ call' = [NoCall EXCEPT !.op = "init", !.before = nm, !.step = call.step + 1,
                                 !.rc = ndn_name_init(nm, cs, Len(cs)).rc,
                                 !.in = [components |-> cs, size |-> Len(cs)]]
  /\ pc' = "name_op"
  /\ UNCHANGED <<data, enc, ret, sign, wire, rx, dres, face>>

NameOpAppend ==
  /\ pc \in {"idle", "name_op"}
  /\ call.step < MaxOps
  /\ \E c \in {PoolComponent(1), PoolComponent(2)} :
       /\ nm' = ndn_name_append_component(nm, c).name
       /\ call' = [NoCall EXCEPT !.op = "append", !.before = nm, !.step = call.step + 1,
                                 !.rc = ndn_name_append_component(nm, c).rc,
                                 !.in = [component |-> c]]
  /\ pc' = "name_op"
  /\ UNCHANGED <<data, enc, ret, sign, wire, rx, dres, face>>

NameOpFromString ==
  /\ pc \in {"idle", "name_op"}
  /\ call.step < MaxOps
  /\ \E s \in NameStrings : \E g \in Garbages :
       /\ nm' = ndn_name_from_string(nm, s, g).name
       /\ call' = [NoCall EXCEPT !.op = "from_string", !.before = nm, !.step = call.step + 1,
                                 !.rc = ndn_name_from_string(nm, s, g).rc,
                                 !.in = [string |-> s]]
  /\ pc' = "name_op"
  /\ UNCHANGED <<data, enc, ret, sign, wire, rx, dres, face>>

NameOpDecode ==
  /\ pc \in {"idle", "name_op"}
  /\ call.step < MaxOps
  /\ \E w \in NameWires :
       /\ nm' = ndn_name_tlv_decode(decoder_init(w, Len(w)), nm).name
       /\ call' = [NoCall EXCEPT !.op = "tlv_decode", !.before = nm, !.step = call.step + 1,
                                 !.rc = ndn_name_tlv_decode(decoder_init(w, Len(w)), nm).rc,
                                 !.in = [wire |-> w],
                                 !.out = [offset |->
                                   ndn_name_tlv_decode(decoder_init(w, Len(w)), nm).d.offset]]
  /\ pc' = "name_op"
  /\ UNCHANGED <<data, enc, ret, sign, wire, rx, dres, face>>

\* ndn_name_compare of nm and another name, in both orders
NameOpCompare ==
  /\ pc \in {"idle", "name_op"}
  /\ \E n \in OtherNames :
       call' = [NoCall EXCEPT !.op = "compare", !.before = nm, !.step = call.step,
                              !.rc = ndn_name_compare(nm, n),
                              !.in = [lhs |-> nm, rhs |-> n],
                              !.out = [swapped |-> ndn_name_compare(n, nm)]]
  /\ pc' = "name_op"
  /\ UNCHANGED <<data, enc, ret, sign, wire, rx, dres, nm, face>>

\* ndn_name_is_prefix_of of nm and another name, of that name and a third, of nm and
\* the third, and of nm and itself
NameOpIsPrefixOf ==
  /\ pc \in {"idle", "name_op"}
  /\ \E b \in OtherNames : \E c \in OtherNames :
       call' = [NoCall EXCEPT !.op = "is_prefix_of", !.before = nm, !.step = call.step,
                              !.rc = ndn_name_is_prefix_of(nm, b),
                              !.in = [lhs |-> nm, rhs |-> b, third |-> c],
                              !.out = [bc |-> ndn_name_is_prefix_of(b, c),
                                       ac |-> ndn_name_is_prefix_of(nm, c),
                                       aa |-> ndn_name_is_prefix_of(nm, nm)]]
  /\ pc' = "name_op"
  /\ UNCHANGED <<data, enc, ret, sign, wire, rx, dres, nm, face>>

NextNameOps ==
  \/ NameOpInit
  \/ NameOpAppend
  \/ NameOpFromString
  \/ NameOpDecode
  \/ NameOpCompare
  \/ NameOpIsPrefixOf
  \/ Reset

SpecNameOps == Init /\ [][NextNameOps]_vars

(***************************************************************************)
(* The encrypted content: one action per function                          *)
(***************************************************************************)
\* plaintext lengths: none, one block, and those around the largest that is accepted
\* with an empty key-id name
PlainSizes ==
  {0, NDN_AES_BLOCK_SIZE}
  \cup {NDN_CONTENT_BUFFER_SIZE - 42 + k : k \in 0..(4 + MaxSlack)}

\* the record before the call: a new one, one that held five bytes of content, one
\* whose content buffer was full
PriorData ==
  {BlankData, StaleData,
   [BlankData EXCEPT !.content_value = ContentOf(NDN_CONTENT_BUFFER_SIZE),
                     !.content_size = NDN_CONTENT_BUFFER_SIZE]}

KeyIds == {NameOf(<<>>), NameOf(<<PoolComponent(1)>>)}

InitVectors ==
  {Tuple([i \in 1..NDN_AES_BLOCK_SIZE |-> i]),
   Tuple([i \in 1..NDN_AES_BLOCK_SIZE |-> 255 - i])}

SetEncryptedContent ==
  /\ pc = "idle"
  /\ \E prior \in PriorData : \E n \in PlainSizes : \E k \in KeyIds :
     \E iv \in InitVectors : \E key \in Keys :
       /\ data' = ndn_data_set_encrypted_content(prior, ContentOf(n), n, k, iv, key).data
       /\ call' =
            [NoCall EXCEPT
               !.op = "set_encrypted_content",
               !.rc = ndn_data_set_encrypted_content(prior, ContentOf(n), n, k, iv, key).rc,
               !.before = prior,
               !.in = [content_value |-> ContentOf(n), content_size |-> n, key_id |-> k,
                       aes_iv |-> iv, key |-> key],
               !.out =
                 [payload_offset |->
                    ndn_data_set_encrypted_content(prior, ContentOf(n), n, k, iv, key)
                      .payload_offset,
                  encrypt |->
                    ndn_data_set_encrypted_content(prior, ContentOf(n), n, k, iv, key)
                      .encrypt]]
  /\ pc' = "content_set"
  /\ UNCHANGED <<enc, ret, sign, wire, rx, dres, nm, face>>

\* the caller's key_id holds another name, its aes_iv and content_used_size zeros
ParseEncryptedContent ==
  /\ pc = "content_set"
  /\ dres' = ndn_data_parse_encrypted_content(
               data, NameOf(<<PoolComponent(3)>>), Zeros(NDN_AES_BLOCK_SIZE), 0)
  /\ pc' = "content_parsed"
  /\ UNCHANGED <<data, enc, ret, sign, wire, rx, nm, face, call>>

\* the payload lengths the envelopes of another producer declare: less than a block, two
\* blocks, more than a uint8_t holds
ReceivedPayloadLengths == {5, 2 * NDN_AES_BLOCK_SIZE, NDN_CONTENT_BUFFER_SIZE + 4}

\* the bytes cut to the size of the content buffer
CutToContentBuffer(bytes) ==
  IF Len(bytes) > NDN_CONTENT_BUFFER_SIZE THEN SubSeq(bytes, 1, NDN_CONTENT_BUFFER_SIZE)
  ELSE bytes

\* the content of a Data of another producer: an envelope with the given key-id name and
\* IV whose payload declares len bytes, cut to the content buffer
ReceivedEnvelope(key_id, aes_iv, len) ==
  CutToContentBuffer(
    VarBytes(TLV_AC_ENCRYPTED_CONTENT)
    \o VarBytes(EncryptedValueSize(len - NDN_AES_BLOCK_SIZE, key_id))
    \o NameWire(key_id)
    \o <<TLV_AC_AES_IV, NDN_AES_BLOCK_SIZE>> \o aes_iv
    \o VarBytes(TLV_AC_ENCRYPTED_PAYLOAD) \o VarBytes(len)
    \o ContentOf(len))

\* the consumer holds a decoded Data of another producer whose content is an envelope
ReceiveEncryptedContent ==
  /\ pc = "idle"
  /\ \E k \in KeyIds : \E iv \in InitVectors : \E len \in ReceivedPayloadLengths :
       /\ data' = [StaleData EXCEPT
                     !.content_value = ReceivedEnvelope(k, iv, len),
                     !.content_size = Len(ReceivedEnvelope(k, iv, len))]
       /\ call' = [NoCall EXCEPT !.op = "receive_encrypted_content", !.before = data,
                                 !.in = [key_id |-> k, aes_iv |-> iv,
                                         payload_length |-> len]]
  /\ pc' = "content_received"
  /\ UNCHANGED <<enc, ret, sign, wire, rx, dres, nm, face>>

\* ndn_data_parse_encrypted_content of the content received
ParseReceivedContent ==
  /\ pc = "content_received"
  /\ dres' = ndn_data_parse_encrypted_content(
               data, NameOf(<<PoolComponent(3)>>), Zeros(NDN_AES_BLOCK_SIZE), 0)
  /\ pc' = "received_parsed"
  /\ UNCHANGED <<data, enc, ret, sign, wire, rx, nm, face, call>>

NextContent ==
  \/ SetEncryptedContent
  \/ ParseEncryptedContent
  \/ ReceiveEncryptedContent
  \/ ParseReceivedContent
  \/ Reset

SpecContent == Init /\ [][NextContent]_vars

(***************************************************************************)
(* The signature of the producer's Data: the calls that write it           *)
(***************************************************************************)
\* the three supported signature types and one that is not
SignatureTypes ==
  {NDN_SIG_TYPE_DIGEST_SHA256, NDN_SIG_TYPE_ECDSA_SHA256, NDN_SIG_TYPE_HMAC_SHA256, 1}

\* the lengths of the values handed to ndn_signature_set_signature
SignatureSizes ==
  {NDN_SEC_SHA256_HASH_SIZE, 64, NDN_ASN1_ECDSA_MAX_ENCODED_SIG_SIZE,
   NDN_SIGNATURE_BUFFER_SIZE + 1}

\* the producer identities: those of the encode actions, and one of
\* NDN_NAME_COMPONENTS_SIZE - 1 components
SignerIdentities ==
  Identities
  \cup {NameOf([i \in 1..(NDN_NAME_COMPONENTS_SIZE - 1) |-> PoolComponent(1)])}

\* _prepare_signature_info stores a component behind the last slot of the key locator
KeyLocatorOverflows(id) == id.components_size + 2 > NDN_NAME_COMPONENTS_SIZE

\* what the store behind the last slot can leave: nothing in the name, or, the size
\* field lying behind the slots, the type of the component in components_size, which
\* the increment that follows then raises by one
OverflowOutcomes(d, signature_type, id, key_id) ==
  {prepare_signature_info(d, signature_type, id, key_id),
   [prepare_signature_info(d, signature_type, id, key_id)
      EXCEPT !.signature.key_locator_name.components_size =
               TLV_GenericNameComponent + 1]}

SetSignatureType ==
  /\ pc \in {"idle", "sig"}
  /\ call.step < MaxOps
  /\ \E type \in SignatureTypes :
       /\ data' = [data EXCEPT !.signature =
                     ndn_signature_set_signature_type(data.signature, type).sig]
       /\ call' = [NoCall EXCEPT !.op = "set_signature_type",
                                 !.rc = ndn_signature_set_signature_type(
                                          data.signature, type).rc,
                                 !.before = data.signature, !.step = call.step + 1,
                                 !.in = [type |-> type]]
  /\ pc' = "sig"
  /\ UNCHANGED <<enc, ret, sign, wire, rx, dres, nm, face>>

SetSignature ==
  /\ pc \in {"idle", "sig"}
  /\ call.step < MaxOps
  /\ \E n \in SignatureSizes :
       /\ data' = [data EXCEPT !.signature =
                     ndn_signature_set_signature(data.signature, ContentOf(n), n).sig]
       /\ call' = [NoCall EXCEPT !.op = "set_signature",
                                 !.rc = ndn_signature_set_signature(
                                          data.signature, ContentOf(n), n).rc,
                                 !.before = data.signature, !.step = call.step + 1,
                                 !.in = [sig_value |-> ContentOf(n), sig_size |-> n]]
  /\ pc' = "sig"
  /\ UNCHANGED <<enc, ret, sign, wire, rx, dres, nm, face>>

\* the state after an encode call whose outcome is o
SignatureEncoded(o, op, id) ==
  /\ data' = o.d
  /\ enc' = o.e
  /\ ret' = o.ret
  /\ call' = [NoCall EXCEPT !.op = op, !.rc = o.ret, !.before = data.signature,
                            !.step = call.step + 1,
                            !.in = [producer_identity |-> id, key |-> SigningKey],
                            !.out = [undefined |-> FALSE]]

\* the state after an encode call whose _prepare_signature_info left d: what the call
\* does after the store behind the key locator is not defined
SignatureOverflowed(d, op, id) ==
  /\ data' = d
  /\ enc' = enc
  /\ ret' \in {0, NDN_OVERSIZE}
  /\ call' = [NoCall EXCEPT !.op = op, !.rc = ret', !.before = data.signature,
                            !.step = call.step + 1,
                            !.in = [producer_identity |-> id, key |-> SigningKey],
                            !.out = [undefined |-> TRUE]]

SignDigest ==
  /\ pc \in {"idle", "sig"}
  /\ call.step < MaxOps
  /\ \E result \in SignerResults :
       SignatureEncoded(
         ndn_data_tlv_encode_digest_sign(
           encoder_init(Zeros(BigCapacity), BigCapacity), data, result),
         "encode_digest_sign", NameOf(<<>>))
  /\ pc' = "sig"
  /\ UNCHANGED <<sign, wire, rx, dres, nm, face>>

SignHmac ==
  /\ pc \in {"idle", "sig"}
  /\ call.step < MaxOps
  /\ \E id \in SignerIdentities, result \in SignerResults :
       IF KeyLocatorOverflows(id)
       THEN \E d \in OverflowOutcomes(data, NDN_SIG_TYPE_HMAC_SHA256, id,
                                      SigningKey.key_id) :
              SignatureOverflowed(d, "encode_hmac_sign", id)
       ELSE SignatureEncoded(
              ndn_data_tlv_encode_hmac_sign(
                encoder_init(Zeros(BigCapacity), BigCapacity), data, id, SigningKey,
                result),
              "encode_hmac_sign", id)
  /\ pc' = "sig"
  /\ UNCHANGED <<sign, wire, rx, dres, nm, face>>

SignEcdsa ==
  /\ pc \in {"idle", "sig"}
  /\ call.step < MaxOps
  /\ \E id \in SignerIdentities, result \in SignerResults, len \in EcdsaSigLens :
       IF KeyLocatorOverflows(id)
       THEN \E d \in OverflowOutcomes(data, NDN_SIG_TYPE_ECDSA_SHA256, id,
                                      SigningKey.key_id) :
              SignatureOverflowed(d, "encode_ecdsa_sign", id)
       ELSE SignatureEncoded(
              ndn_data_tlv_encode_ecdsa_sign(
                encoder_init(Zeros(BigCapacity), BigCapacity), data, id, SigningKey,
                result, len, 0),
              "encode_ecdsa_sign", id)
  /\ pc' = "sig"
  /\ UNCHANGED <<sign, wire, rx, dres, nm, face>>

NextSignature ==
  \/ SetSignatureType
  \/ SetSignature
  \/ SignDigest
  \/ SignHmac
  \/ SignEcdsa
  \/ Reset

SpecSignature == Init /\ [][NextSignature]_vars

(***************************************************************************)
(* The application on the direct face: one action per function             *)
(***************************************************************************)
\* the names the application registers
FaceNames == {NameOf(<<PoolComponent(1)>>), NameOf(<<PoolComponent(1), PoolComponent(2)>>)}

\* the names of the packets sent to the face, as pointers: none, the registered names,
\* the empty name and a name no registered name is a prefix of
SendNames ==
  {<<>>, <<NameOf(<<>>)>>, <<NameOf(<<PoolComponent(2)>>)>>} \cup {<<n>> : n \in FaceNames}

\* an Interest, a Data, a packet of another type and no bytes at all
SendPackets == {<<TLV_Interest, 0>>, <<TLV_Data, 0>>, <<80, 0>>, <<>>}

\* the number of entries of the table that are in use
Occupied(f) ==
  Cardinality({i \in 1..NDN_DIRECT_FACE_CB_ENTRY_SIZE :
                 f.cb_entries[i].interest_name.components_size
                   # NDN_FWD_INVALID_NAME_SIZE})

ExpressInterest ==
  /\ pc \in {"idle", "face"}
  /\ \E n \in FaceNames :
       /\ face' = ndn_direct_face_express_interest(
                    face, n, <<TLV_Interest, 0>>, "on_data", "on_timeout").face
       /\ call' = [NoCall EXCEPT
                     !.op = "express_interest",
                     !.rc = ndn_direct_face_express_interest(
                              face, n, <<TLV_Interest, 0>>, "on_data", "on_timeout").rc,
                     !.before = face,
                     !.in = [interest_name |-> n, on_data |-> "on_data",
                             on_interest_timeout |-> "on_timeout"],
                     !.out = [received |->
                                ndn_direct_face_express_interest(
                                  face, n, <<TLV_Interest, 0>>, "on_data", "on_timeout")
                                  .received,
                              fib |-> <<>>]]
  /\ pc' = "face"
  /\ UNCHANGED <<data, enc, ret, sign, wire, rx, dres, nm>>

RegisterPrefix ==
  /\ pc \in {"idle", "face"}
  /\ \E n \in FaceNames :
       /\ face' = ndn_direct_face_register_prefix(face, n, "on_interest").face
       /\ call' = [NoCall EXCEPT
                     !.op = "register_prefix",
                     !.rc = ndn_direct_face_register_prefix(face, n, "on_interest").rc,
                     !.before = face,
                     !.in = [prefix_name |-> n, on_interest |-> "on_interest"],
                     !.out = [received |-> <<>>,
                              fib |-> ndn_direct_face_register_prefix(
                                        face, n, "on_interest").fib]]
  /\ pc' = "face"
  /\ UNCHANGED <<data, enc, ret, sign, wire, rx, dres, nm>>

FaceSend ==
  /\ pc \in {"idle", "face"}
  /\ \E n \in SendNames : \E p \in SendPackets :
       call' = [NoCall EXCEPT !.op = "send",
                              !.rc = ndn_direct_face_send(face, n, p).rc,
                              !.before = face,
                              !.in = [name |-> n, packet |-> p],
                              !.out = [invoked |-> ndn_direct_face_send(face, n, p).invoked]]
  /\ pc' = "face"
  /\ UNCHANGED <<data, enc, ret, sign, wire, rx, dres, nm, face>>

\* ndn_direct_face_destroy, called while at most MaxStale entries are in use
FaceDestroy ==
  /\ pc \in {"idle", "face"}
  /\ Occupied(face) <= MaxStale
  /\ face' = InvalidateEntries(face)
  /\ call' = [NoCall EXCEPT !.op = "destroy", !.before = face]
  /\ pc' = "face"
  /\ UNCHANGED <<data, enc, ret, sign, wire, rx, dres, nm>>

\* the application is done with the face and constructs it anew
FaceReset ==
  /\ pc = "face"
  /\ pc' = "idle"
  /\ face' = FaceConstructed
  /\ call' = NoCall
  /\ UNCHANGED <<data, enc, ret, sign, wire, rx, dres, nm>>

NextFace ==
  \/ ExpressInterest
  \/ RegisterPrefix
  \/ FaceSend
  \/ FaceDestroy
  \/ FaceReset

SpecFace == Init /\ [][NextFace]_vars

(***************************************************************************)
(* Properties                                                              *)
(***************************************************************************)
\* the metainfo fields that are enabled are the same in a and b
SameMetaInfo(a, b) ==
  /\ a.enable_ContentType = b.enable_ContentType
  /\ a.enable_FreshnessPeriod = b.enable_FreshnessPeriod
  /\ a.enable_FinalBlockId = b.enable_FinalBlockId
  /\ (a.enable_ContentType > 0 => a.content_type = b.content_type)
  /\ (a.enable_FreshnessPeriod > 0 => a.freshness_period = b.freshness_period)
  /\ (a.enable_FinalBlockId > 0 =>
        name_component_compare(a.final_block_id, b.final_block_id) = 0)

\* the content of data record d
ContentRead(d) == SubSeq(d.content_value, 1, d.content_size)

\* a packet encoded into a buffer of BigCapacity bytes has been decoded by the decode
\* function of its suite with the key that signed it
RoundTripped ==
  /\ pc = "decoded"
  /\ dres.from = "sent"
  /\ dres.variant = sign.suite
  /\ dres.key = sign.key
  /\ sign.cap = BigCapacity

\* the outer length field found in the encoder's buffer
OuterLengthField ==
  decoder_get_length(decoder_get_type(decoder_init(enc.buf, enc.max), 0), 0).val

\* C1: decoding an encoded Data packet with the decode function of its suite and the
\* matching key returns 0 and yields the name, metainfo and content that were encoded,
\* whatever the size of the packet.
C1_DataRoundTrip ==
  RoundTripped =>
    /\ dres.ret = 0
    /\ ndn_name_compare(rx.name, data.name) = 0
    /\ SameMetaInfo(rx.metainfo, data.metainfo)
    /\ rx.content_size = data.content_size
    /\ ContentRead(rx) = ContentRead(data)

\* C2: after a successful ndn_data_tlv_encode_ecdsa_sign the outer length field is the
\* number of bytes between its end and the encoder's final offset: the unsigned block
\* and the whole TLV_SignatureValue element.
C2_EcdsaOuterLength ==
  (pc = "encoded" /\ sign.suite = "ecdsa" /\ ret = 0 /\ sign.cap = BigCapacity) =>
    /\ OuterLengthField = enc.offset - sign.afterL
    /\ OuterLengthField =
         (sign.t - sign.s)
         + encoder_probe_block_size(TLV_SignatureValue, data.signature.sig_size)

\* C3: in the digest and HMAC encoders the outer length written after TLV_Data is the
\* number of bytes the call appends after it (the unsigned block and a signature value
\* of 32 bytes), so that on success the final offset is the offset after the length
\* field plus that length.
C3_OuterLength ==
  (pc = "encoded" /\ sign.suite \in {"digest", "hmac"} /\ ret = 0 /\ sign.fail = 0) =>
    /\ OuterLengthField = sign.L
    /\ enc.offset = sign.afterL + sign.L
    /\ sign.L = (sign.t - sign.s)
                + encoder_probe_block_size(TLV_SignatureValue, NDN_SEC_SHA256_HASH_SIZE)

\* an HMAC packet whose outer length takes three bytes was encoded
C3_Witness ==
  /\ pc = "encoded"
  /\ sign.suite = "hmac"
  /\ ret = 0
  /\ sign.fail = 0
  /\ sign.L >= 253
  /\ enc.offset = sign.afterL + sign.L

\* C4: the bytes handed to the signer and the bytes handed to the verifier by the
\* matching decode call are the same, and they are the range from the end of the outer
\* length field to the type byte of TLV_SignatureValue.
C4_SignedRange ==
  (RoundTripped /\ dres.verifyInvoked) =>
    /\ dres.msg = sign.msg
    /\ dres.s = sign.afterL
    /\ dres.t + encoder_probe_block_size(TLV_SignatureValue, data.signature.sig_size)
         = Len(wire)
    /\ wire[dres.t + 1] = TLV_SignatureValue

\* C5: in every encode call, whatever the capacity, the encoder offset stays within
\* [0, capacity] and the buffer is not accessed outside [0, capacity).
C5_EncoderInBounds ==
  pc = "encoded" =>
    /\ ~sign.oob
    /\ enc.offset >= 0 /\ enc.offset <= enc.max
    /\ \A o \in sign.offsets : o >= 0 /\ o <= enc.max

\* C6: when an append of an encode call fails for lack of room, the call returns that
\* error and never 0 (the signer itself having succeeded).
C6_OversizeReturned ==
  (pc = "encoded" /\ sign.fail < 0 /\ sign.signer >= 0) => ret = sign.fail

\* C7: when a step of a decode call fails, the call returns a negative code and the
\* verifier is not invoked.
C7_DecodeFailureReturned ==
  (pc = "decoded" /\ dres.stepFailed) => (dres.ret < 0 /\ ~dres.verifyInvoked)

\* the signature size ndn_signature_set_signature_type sets for the suite of the call
SuiteSigSize ==
  IF sign.suite = "ecdsa" THEN NDN_ASN1_ECDSA_MAX_ENCODED_SIG_SIZE
  ELSE NDN_SEC_SHA256_HASH_SIZE

\* C8: when the signer returns a negative result, the encode call returns that result,
\* appends no signature value, and leaves the signature size as the suite set it.
C8_SignerFailureAborts ==
  (pc = "encoded" /\ sign.signer < 0) =>
    /\ ret = sign.signer
    /\ ~sign.sigAppended
    /\ enc.offset <= sign.t
    /\ data.signature.sig_size = SuiteSigSize

\* the ECDSA signer failed in a call whose appends all succeeded
C8_Witness ==
  /\ pc = "encoded"
  /\ sign.suite = "ecdsa"
  /\ sign.signer = NDN_SEC_SIGN_FAILED
  /\ sign.fail = 0
  /\ ret = NDN_SEC_SIGN_FAILED

\* the length field after the type the decode call's switch looked at
SwitchLength ==
  decoder_get_length([decoder_init(wire, Len(wire)) EXCEPT !.offset = dres.offType], 0)

\* C9: the element after metainfo is handled in four ways: content that fits is read,
\* content that does not fit returns NDN_OVERSIZE and leaves the record's content alone,
\* signature info means no content and a step back of one byte, any other type returns
\* NDN_WRONG_TLV_TYPE and no signature is decoded.
C9_ContentSwitch ==
  (pc = "decoded" /\ dres.typeRead) =>
    /\ (dres.probe = TLV_Content /\ SwitchLength.rc = 0
        /\ ~U32Lt(NDN_CONTENT_BUFFER_SIZE, SwitchLength.val)) =>
          /\ rx.content_size = SwitchLength.val
          /\ (SwitchLength.offset + SwitchLength.val <= Len(wire) =>
                /\ ContentRead(rx) = Slice(wire, SwitchLength.offset, SwitchLength.val)
                /\ dres.offBranch = SwitchLength.offset + SwitchLength.val)
    /\ (dres.probe = TLV_Content /\ SwitchLength.rc = 0
        /\ U32Lt(NDN_CONTENT_BUFFER_SIZE, SwitchLength.val)) =>
          /\ dres.ret = NDN_OVERSIZE
          /\ rx.content_size = dres.before.content_size
          /\ rx.content_value = dres.before.content_value
    /\ (dres.probe = TLV_SignatureInfo) =>
          /\ rx.content_size = 0
          /\ dres.offBranch = dres.offType - 1
          /\ dres.sigDecoded
    /\ (dres.probe \notin {TLV_Content, TLV_SignatureInfo}) =>
          /\ dres.ret = NDN_WRONG_TLV_TYPE
          /\ ~dres.sigDecoded
          /\ ~dres.verifyInvoked

\* a packet whose content element declares more than NDN_CONTENT_BUFFER_SIZE bytes was
\* decoded into a record that held content
C9_Witness ==
  /\ pc = "decoded"
  /\ dres.typeRead
  /\ dres.probe = TLV_Content
  /\ dres.contentLen = NDN_CONTENT_BUFFER_SIZE + 1
  /\ dres.ret = NDN_OVERSIZE
  /\ rx.content_size = 5

\* the length field of the TLV_Name element on the wire
NameLengthField ==
  decoder_get_length(decoder_get_type(decoder_init(wire, Len(wire)), 0), 0).val

\* C10: decoding the bytes ndn_name_tlv_encode wrote for a name returns 0 and yields a
\* name of as many components, pairwise equal; the length field of the encoding is the
\* sum of the probed sizes of the components.
C10_NameRoundTrip ==
  (pc = "name_decoded" /\ dres.from = "name_encoded"
   /\ enc.max >= ndn_name_probe_block_size(nm)) =>
    /\ ret = 0
    /\ rx.name.components_size = nm.components_size
    /\ ndn_name_compare(rx.name, nm) = 0
    /\ NameLengthField = SumProbe(nm, nm.components_size)

\* a name that fills every slot, its length taking three bytes, went through both calls
C10_Witness ==
  /\ pc = "name_decoded"
  /\ dres.from = "name_encoded"
  /\ nm.components_size = NDN_NAME_COMPONENTS_SIZE
  /\ NameLengthField >= 253
  /\ ret = 0
  /\ ndn_name_compare(rx.name, nm) = 0

\* the segments of a string that starts with '/': what lies between two consecutive
\* slashes and what follows the last one, a string of one character having none
RECURSIVE SplitFrom(_, _, _)
SplitFrom(string, i, segment) ==
  IF i > Len(string) THEN <<segment>>
  ELSE IF string[i] = 47 THEN <<segment>> \o SplitFrom(string, i + 1, <<>>)
  ELSE SplitFrom(string, i + 1, Append(segment, string[i]))

Segments(string) == IF Len(string) <= 1 THEN <<>> ELSE SplitFrom(string, 2, <<>>)

\* C11: ndn_name_from_string of a string that does not start with '/' returns
\* NDN_NAME_INVALID_FORMAT and leaves a name of zero components; of any other string
\* (of no more segments than a name holds) it returns 0 and the name's components are,
\* in order, generic components holding the segments of the string.
C11_FromString ==
  (call.op = "from_string") =>
    IF CharAt(call.in.string, 0) # 47
    THEN call.rc = NDN_NAME_INVALID_FORMAT /\ nm.components_size = 0
    ELSE Len(Segments(call.in.string)) <= NDN_NAME_COMPONENTS_SIZE =>
           /\ call.rc = 0
           /\ nm.components_size = Len(Segments(call.in.string))
           /\ \A i \in 1..Len(Segments(call.in.string)) :
                nm.components[i] =
                  name_component_from_buffer(TLV_GenericNameComponent,
                                             Segments(call.in.string)[i])

\* the last call is one of those that write a name
NameWritten == call.op \in {"init", "append", "from_string", "tlv_decode"}

\* the last call was asked for more components than a name holds
WouldExceed ==
  \/ call.op = "init" /\ call.in.size > NDN_NAME_COMPONENTS_SIZE
  \/ call.op = "append" /\ call.before.components_size + 1 > NDN_NAME_COMPONENTS_SIZE
  \/ /\ call.op = "from_string"
     /\ CharAt(call.in.string, 0) = 47
     /\ Len(Segments(call.in.string)) > NDN_NAME_COMPONENTS_SIZE
  \/ call.op = "tlv_decode" /\ call.in.wire = OverfullWire

\* C12: after any sequence of ndn_name_init, ndn_name_append_component,
\* ndn_name_from_string and ndn_name_tlv_decode the name has at most
\* NDN_NAME_COMPONENTS_SIZE components and no slot beyond the last was written; a call
\* that would exceed the maximum returns NDN_OVERSIZE; init, append and tlv_decode leave
\* components_size as it was when they fail.
C12_NameBounded ==
  /\ nm.components_size \in 0..NDN_NAME_COMPONENTS_SIZE
  /\ DOMAIN nm.components = 1..NDN_NAME_COMPONENTS_SIZE
  /\ (call.op = "append" /\ call.rc = 0) =>
       call.before.components_size + 1 \in 1..NDN_NAME_COMPONENTS_SIZE
  /\ (call.op = "init" /\ call.rc = 0) => call.in.size <= NDN_NAME_COMPONENTS_SIZE
  /\ (NameWritten /\ WouldExceed) => call.rc = NDN_OVERSIZE
  /\ (call.op \in {"init", "append", "tlv_decode"} /\ call.rc < 0) =>
       nm.components_size = call.before.components_size

\* an append to a name that holds NDN_NAME_COMPONENTS_SIZE components was refused
C12_Witness ==
  /\ call.op = "append"
  /\ call.rc = NDN_OVERSIZE
  /\ call.before.components_size = NDN_NAME_COMPONENTS_SIZE
  /\ nm = call.before

\* the two names have the same number of components and equal components pairwise
SameComponents(a, b) ==
  /\ a.components_size = b.components_size
  /\ \A i \in 1..a.components_size :
       /\ a.components[i].type = b.components[i].type
       /\ a.components[i].value = b.components[i].value

\* C13: ndn_name_compare returns 0 iff the two names have the same number of components
\* and pairwise-equal components, a non-zero value otherwise, and the same verdict when
\* its arguments are swapped.
C13_Compare ==
  (call.op = "compare") =>
    /\ (call.rc = 0) <=> SameComponents(call.in.lhs, call.in.rhs)
    /\ (call.rc = 0) <=> (call.out.swapped = 0)

\* two equal names were compared, of which one holds other components in the slots
\* it does not use
C13_Witness ==
  /\ call.op = "compare"
  /\ call.rc = 0
  /\ call.in.lhs.components_size > 0
  /\ call.in.lhs.components # call.in.rhs.components

\* a has no more components than b and they are the components b starts with
StartsWith(b, a) ==
  /\ a.components_size <= b.components_size
  /\ \A i \in 1..a.components_size :
       /\ a.components[i].type = b.components[i].type
       /\ a.components[i].value = b.components[i].value

\* C14: ndn_name_is_prefix_of(A, B) returns 0 iff A has no more components than B and
\* the first components of B are those of A; it is reflexive, and transitive: when it
\* returns 0 for (A, B) and for (B, C) it returns 0 for (A, C).
C14_IsPrefixOf ==
  (call.op = "is_prefix_of") =>
    /\ (call.rc = 0) <=> StartsWith(call.in.rhs, call.in.lhs)
    /\ call.out.aa = 0
    /\ (call.rc = 0 /\ call.out.bc = 0) => call.out.ac = 0

\* a name of one component was found to be a prefix of a longer one, and that one of a
\* third name
C14_Witness ==
  /\ call.op = "is_prefix_of"
  /\ call.rc = 0
  /\ call.out.bc = 0
  /\ call.out.ac = 0
  /\ 0 < call.in.lhs.components_size
  /\ call.in.lhs.components_size < call.in.rhs.components_size

\* the full encoded size of the envelope the last set call was asked to build
EnvelopeSize ==
  encoder_probe_block_size(TLV_AC_ENCRYPTED_CONTENT,
                           EncryptedValueSize(call.in.content_size, call.in.key_id))

\* C15: ndn_data_set_encrypted_content returns NDN_OVERSIZE and leaves content_value
\* and content_size as they were whenever the full encoded size of the envelope exceeds
\* NDN_CONTENT_BUFFER_SIZE; after every successful call content_size is at most
\* NDN_CONTENT_BUFFER_SIZE.
C15_EnvelopeOversize ==
  (pc = "content_set") =>
    /\ (EnvelopeSize > NDN_CONTENT_BUFFER_SIZE) =>
         /\ call.rc = NDN_OVERSIZE
         /\ data.content_value = call.before.content_value
         /\ data.content_size = call.before.content_size
    /\ (call.rc = 0) => data.content_size <= NDN_CONTENT_BUFFER_SIZE

\* C16: once ndn_data_set_encrypted_content has accepted a plaintext and an IV,
\* ndn_data_parse_encrypted_content on the same record returns 0, gives back the key-id
\* name and the IV, sets content_used_size to the length of the plaintext and hands
\* exactly the bytes of the encrypted payload to the AES decrypt collaborator, whatever
\* content_size the record held before the set call.
C16_EncryptedRoundTrip ==
  (pc = "content_parsed" /\ call.rc = 0) =>
    /\ dres.rc = 0
    /\ ndn_name_compare(dres.key_id, call.in.key_id) = 0
    /\ dres.aes_iv = call.in.aes_iv
    /\ dres.content_used_size = call.in.content_size
    /\ dres.decrypt_size = call.in.content_size + NDN_AES_BLOCK_SIZE
    /\ ~dres.out_of_buffer
    /\ dres.decrypt_input =
         CipherText(call.in.content_value, call.in.aes_iv, call.in.key)

\* the length of a signature is the one of its type
LengthMatchesType(sig) ==
  /\ (sig.sig_type = NDN_SIG_TYPE_DIGEST_SHA256) => sig.sig_size = 32
  /\ (sig.sig_type = NDN_SIG_TYPE_HMAC_SHA256) => sig.sig_size = 32
  /\ (sig.sig_type = NDN_SIG_TYPE_ECDSA_SHA256) =>
       /\ sig.sig_size >= NDN_ASN1_ECDSA_MIN_ENCODED_SIG_SIZE
       /\ sig.sig_size <= NDN_ASN1_ECDSA_MAX_ENCODED_SIG_SIZE

\* C17: after ndn_signature_set_signature_type, after a successful
\* ndn_signature_set_signature and after a successful encode call the length of the
\* signature is the one of its type: 32 for DIGEST_SHA256 and HMAC_SHA256, between the
\* minimum and the maximum size of an ASN.1 encoded signature for ECDSA_SHA256; a set
\* call that is rejected with NDN_SEC_UNSUPPORT_SIGN_TYPE, NDN_SEC_WRONG_SIG_SIZE or
\* NDN_OVERSIZE leaves sig_type, sig_size and sig_value as they were.
C17_SignatureLength ==
  /\ (/\ call.op \in {"set_signature_type", "set_signature", "encode_digest_sign",
                      "encode_hmac_sign", "encode_ecdsa_sign"}
      /\ call.rc = 0) => LengthMatchesType(data.signature)
  /\ (call.op \in {"set_signature_type", "set_signature"} /\ call.rc # 0) =>
       /\ call.rc \in {NDN_SEC_UNSUPPORT_SIGN_TYPE, NDN_SEC_WRONG_SIG_SIZE, NDN_OVERSIZE}
       /\ data.signature.sig_type = call.before.sig_type
       /\ data.signature.sig_size = call.before.sig_size
       /\ data.signature.sig_value = call.before.sig_value

\* a value of 32 bytes was refused for an ECDSA signature, which kept its 72 bytes
C17_Witness ==
  /\ call.op = "set_signature"
  /\ call.rc = NDN_SEC_WRONG_SIG_SIZE
  /\ call.in.sig_size = 32
  /\ data.signature.sig_type = NDN_SIG_TYPE_ECDSA_SHA256
  /\ data.signature.sig_size = NDN_ASN1_ECDSA_MAX_ENCODED_SIG_SIZE

\* the key locator name _prepare_signature_info is to build for the last encode call
KeyLocatorBuilt ==
  /\ data.signature.key_locator_name.components_size
       = call.in.producer_identity.components_size + 2
  /\ call.in.producer_identity.components_size + 2 <= NDN_NAME_COMPONENTS_SIZE
  /\ \A i \in 1..call.in.producer_identity.components_size :
       data.signature.key_locator_name.components[i]
         = call.in.producer_identity.components[i]
  /\ data.signature.key_locator_name.components[
       call.in.producer_identity.components_size + 1]
       = name_component_from_buffer(TLV_GenericNameComponent, <<75, 69, 89>>)
  /\ data.signature.key_locator_name.components[
       call.in.producer_identity.components_size + 2]
       = name_component_from_buffer(TLV_GenericNameComponent,
                                    BigEndian(call.in.key.key_id, 4))

\* C18: a packet made by ndn_data_tlv_encode_digest_sign has no key locator, whatever
\* the signature held before the call; a packet made by ndn_data_tlv_encode_ecdsa_sign
\* or ndn_data_tlv_encode_hmac_sign has a key locator whose name is the producer
\* identity followed by a "KEY" component and a component of the four bytes of the key
\* id, most significant first.
C18_KeyLocator ==
  /\ (call.op = "encode_digest_sign" /\ call.rc = 0) =>
       data.signature.enable_KeyLocator = 0
  /\ (call.op \in {"encode_hmac_sign", "encode_ecdsa_sign"} /\ call.rc = 0) =>
       /\ data.signature.enable_KeyLocator = 1
       /\ KeyLocatorBuilt

\* the entries of the table before the last call that are in use
InUse(i) ==
  call.before.cb_entries[i].interest_name.components_size # NDN_FWD_INVALID_NAME_SIZE

\* the entries express_interest registered under exactly the name of the packet sent
DataMatches ==
  {i \in 1..NDN_DIRECT_FACE_CB_ENTRY_SIZE :
     /\ InUse(i)
     /\ call.before.cb_entries[i].is_prefix = 0
     /\ SameComponents(call.before.cb_entries[i].interest_name, call.in.name[1])}

\* the entries register_prefix registered under a prefix of the name of the packet sent
InterestMatches ==
  {i \in 1..NDN_DIRECT_FACE_CB_ENTRY_SIZE :
     /\ InUse(i)
     /\ call.before.cb_entries[i].is_prefix = 1
     /\ StartsWith(call.in.name[1], call.before.cb_entries[i].interest_name)}

\* the least element of a non-empty set of numbers
Least(S) == CHOOSE i \in S : \A j \in S : i <= j

\* the send called, as its only callback, the given member of the first of the entries
\* of S, or no callback at all when S is empty
Dispatched(S, member) ==
  IF S = {}
  THEN call.out.invoked = <<>> /\ call.rc = NDN_FWD_NO_MATCHED_CALLBACK
  ELSE /\ call.rc = 0
       /\ call.out.invoked =
            <<[entry |-> Least(S) - 1, member |-> member,
               callback |-> call.before.cb_entries[Least(S)][member]]>>

\* C19: ndn_direct_face_send with a name calls at most one callback, that of the first
\* entry of the table that matches: for a Data packet on_data of the first entry
\* express_interest registered (is_prefix = 0) under exactly that name, never an
\* on_interest; for an Interest packet on_interest of the first entry register_prefix
\* registered (is_prefix = 1) under a prefix of that name, never an on_data; with no
\* such entry it calls nothing and returns NDN_FWD_NO_MATCHED_CALLBACK.
C19_SendDispatch ==
  (call.op = "send" /\ call.in.name # <<>>) =>
    /\ Len(call.out.invoked) <= 1
    /\ (call.in.packet # <<>> /\ call.in.packet[1] = TLV_Data) =>
         Dispatched(DataMatches, "on_data")
    /\ (call.in.packet # <<>> /\ call.in.packet[1] = TLV_Interest) =>
         Dispatched(InterestMatches, "on_interest")

\* an Interest was sent whose name two registered prefixes match, the first of them
\* standing behind an entry of express_interest
C19_Witness ==
  /\ call.op = "send"
  /\ call.in.name # <<>>
  /\ call.in.packet = <<TLV_Interest, 0>>
  /\ Cardinality(InterestMatches) >= 2
  /\ Least(InterestMatches) > 1
  /\ Len(call.out.invoked) = 1
  /\ call.out.invoked[1].entry = Least(InterestMatches) - 1

\* the entries of the table before the last call that are free
FreeSlots ==
  {i \in 1..NDN_DIRECT_FACE_CB_ENTRY_SIZE : ~InUse(i)}

\* the entry the last call is to store
EntryToStore ==
  IF call.op = "express_interest"
  THEN [interest_name |-> call.in.interest_name, is_prefix |-> 0,
        on_data |-> call.in.on_data, on_timeout |-> call.in.on_interest_timeout,
        on_interest |-> NULL]
  ELSE [interest_name |-> call.in.prefix_name, is_prefix |-> 1,
        on_data |-> NULL, on_timeout |-> NULL, on_interest |-> call.in.on_interest]

\* C20: ndn_direct_face_express_interest and ndn_direct_face_register_prefix store their
\* entry in the free slot of lowest index and return 0; when every slot is in use they
\* return NDN_FWD_APP_FACE_CB_TABLE_FULL, leave the table as it was, and call neither
\* ndn_face_receive nor ndn_forwarder_fib_insert.
C20_TableInsert ==
  (call.op \in {"express_interest", "register_prefix"}) =>
    IF FreeSlots = {}
    THEN /\ call.rc = NDN_FWD_APP_FACE_CB_TABLE_FULL
         /\ face = call.before
         /\ call.out.received = <<>>
         /\ call.out.fib = <<>>
    ELSE /\ call.rc = 0
         /\ face.cb_entries[Least(FreeSlots)] = EntryToStore
         /\ \A i \in 1..NDN_DIRECT_FACE_CB_ENTRY_SIZE :
              i # Least(FreeSlots) => face.cb_entries[i] = call.before.cb_entries[i]
         /\ (call.op = "express_interest") => Len(call.out.received) = 1
         /\ (call.op = "register_prefix") => call.out.fib = <<call.in.prefix_name>>

\* an Interest was expressed while every slot was in use
C20_Witness ==
  /\ call.op = "express_interest"
  /\ FreeSlots = {}
  /\ call.rc = NDN_FWD_APP_FACE_CB_TABLE_FULL
  /\ face = call.before

\* the last call was a send whose packet is neither an Interest nor a Data, or whose
\* name is NULL
SendRefused ==
  /\ call.op = "send"
  /\ \/ call.in.packet = <<>>
     \/ call.in.packet[1] \notin {TLV_Interest, TLV_Data}
     \/ call.in.name = <<>>

\* C21: every operation of the name, packet and face layers that returns a status
\* (the two comparisons of names return an order, not a status) returns 0 on success and a negative value on failure; ndn_direct_face_send returns
\* a negative value for a packet that is neither an Interest nor a Data and for a NULL
\* name.
C21_StatusSign ==
  /\ call.op \notin {"none", "compare", "is_prefix_of"} => call.rc <= 0
  /\ SendRefused => call.rc < 0

\* the offset at which the signature info of the compacted packet ends: the outer type
\* and length fields followed by the signed bytes
EndOfSignatureInfo == sign.afterL + Len(sign.msg)

\* C22: after a successful ndn_data_tlv_encode_ecdsa_sign the buffer starts with the
\* TLV_Data type, the outer length field and the unchanged unsigned block, and the
\* TLV_SignatureValue element is emitted right where the signature info ends, for
\* outer lengths of one byte and of three bytes alike: it overwrites no byte of the
\* signature info and leaves no gap behind it.
C22_EcdsaSignatureCursor ==
  (pc = "encoded" /\ sign.suite = "ecdsa" /\ ret = 0 /\ sign.cap = BigCapacity) =>
    /\ Slice(enc.buf, 0, EndOfSignatureInfo)
         = VarBytes(TLV_Data) \o VarBytes(sign.L) \o sign.msg
    /\ EndOfSignatureInfo \in sign.offsets
    /\ enc.buf[EndOfSignatureInfo + 1] = TLV_SignatureValue
    /\ enc.offset = EndOfSignatureInfo
                    + encoder_probe_block_size(TLV_SignatureValue, data.signature.sig_size)

\* a digest-signed packet of a Data without content has been decoded by
\* ndn_data_tlv_decode_digest_verify
EmptyContentDecoded ==
  /\ RoundTripped
  /\ sign.suite = "digest"
  /\ data.content_size = 0

\* C23: the digest-signed packet of a Data with content_size 0 holds no TLV_Content
\* element: the decoder reads TLV_SignatureInfo as the type after metainfo, steps back
\* one byte and sets content_size to 0, and ndn_data_tlv_decode_digest_verify returns 0.
C23_AbsentContent ==
  EmptyContentDecoded =>
    /\ dres.typeRead
    /\ dres.probe = TLV_SignatureInfo
    /\ dres.offBranch = dres.offType - 1
    /\ rx.content_size = 0
    /\ dres.ret = 0

\* the TLV_Name length field of the bytes the last ndn_name_tlv_decode was given
DeclaredLength ==
  decoder_get_length(decoder_get_type(decoder_init(call.in.wire, Len(call.in.wire)), 0), 0)

\* C24: whenever ndn_name_tlv_decode returns 0 the decoder stands exactly at the
\* declared end of the name (the offset after the length field plus the length): a last
\* component that ends behind the declared end is not accepted, and a declared length
\* of 0 yields a name of 0 components.
C24_NameLengthConsumed ==
  (call.op = "tlv_decode" /\ call.rc = 0) =>
    /\ call.out.offset = DeclaredLength.offset + DeclaredLength.val
    /\ DeclaredLength.val = 0 => nm.components_size = 0

\* the bytes of the length field of TLV_AC_ENCRYPTED_PAYLOAD in the record's content
PayloadLengthField ==
  Slice(data.content_value,
        call.out.payload_offset
          - encoder_get_var_size(call.in.content_size + NDN_AES_BLOCK_SIZE),
        encoder_get_var_size(call.in.content_size + NDN_AES_BLOCK_SIZE))

\* C25: after a successful ndn_data_set_encrypted_content of a plaintext of n bytes the
\* length field of TLV_AC_ENCRYPTED_PAYLOAD is n + NDN_AES_BLOCK_SIZE and content_size
\* is the full encoded size of the envelope, whatever content_size held before the call.
C25_EnvelopeContentSize ==
  (pc = "content_set" /\ call.rc = 0) =>
    /\ PayloadLengthField = VarBytes(call.in.content_size + NDN_AES_BLOCK_SIZE)
    /\ data.content_size = EnvelopeSize

\* the slots of the key locator name in which _prepare_signature_info stores the "KEY"
\* component and the key-id component for the identity of the last encode call
KeyLocatorSlots ==
  {call.in.producer_identity.components_size,
   call.in.producer_identity.components_size + 1}

\* C26: for every producer identity ndn_data_tlv_encode_ecdsa_sign and
\* ndn_data_tlv_encode_hmac_sign accept, the key locator name _prepare_signature_info
\* builds has at most NDN_NAME_COMPONENTS_SIZE components, and the "KEY" and key-id
\* components are stored only in slots of index below NDN_NAME_COMPONENTS_SIZE.
C26_KeyLocatorBounded ==
  (call.op \in {"encode_hmac_sign", "encode_ecdsa_sign"}) =>
    /\ data.signature.key_locator_name.components_size <= NDN_NAME_COMPONENTS_SIZE
    /\ \A pos \in KeyLocatorSlots : pos < NDN_NAME_COMPONENTS_SIZE
    /\ ~call.out.undefined

\* entry i of table f is in use
SlotTaken(f, i) ==
  f.cb_entries[i].interest_name.components_size # NDN_FWD_INVALID_NAME_SIZE

\* a step of the face layer keeps what C27 says of the table: a slot in use is freed
\* only by destroy or by a new construct, a send leaves the table as it is, destroy
\* frees every slot, a registration on a table without a free slot is refused, and a
\* send of an Interest or a Data with a name to a table without a slot in use calls
\* nothing, whatever is_prefix and name the free slots still hold
SlotsHeld ==
  /\ \A i \in 1..NDN_DIRECT_FACE_CB_ENTRY_SIZE :
       (SlotTaken(face, i) /\ ~SlotTaken(face', i)) =>
         (call'.op = "destroy" \/ pc' = "idle")
  /\ (call'.op = "send") => face' = face
  /\ (call'.op = "destroy") =>
       \A i \in 1..NDN_DIRECT_FACE_CB_ENTRY_SIZE : ~SlotTaken(face', i)
  /\ (/\ call'.op \in {"express_interest", "register_prefix"}
      /\ \A i \in 1..NDN_DIRECT_FACE_CB_ENTRY_SIZE : SlotTaken(face, i)) =>
       (call'.rc = NDN_FWD_APP_FACE_CB_TABLE_FULL /\ face' = face)
  /\ (/\ call'.op = "send"
      /\ call'.in.name # <<>>
      /\ call'.in.packet \in {<<TLV_Interest, 0>>, <<TLV_Data, 0>>}
      /\ \A i \in 1..NDN_DIRECT_FACE_CB_ENTRY_SIZE : ~SlotTaken(face, i)) =>
       (call'.rc = NDN_FWD_NO_MATCHED_CALLBACK /\ call'.out.invoked = <<>>)

\* C27: a slot of the callback table taken by ndn_direct_face_express_interest or
\* ndn_direct_face_register_prefix is released only by ndn_direct_face_destroy or
\* ndn_direct_face_construct; ndn_direct_face_send frees nothing when it dispatches, so
\* once every slot is taken each registration returns NDN_FWD_APP_FACE_CB_TABLE_FULL, and
\* after destroy every send of a valid packet with a name returns
\* NDN_FWD_NO_MATCHED_CALLBACK.
C27_SlotsHeld == [][SlotsHeld]_vars

\* a Data was dispatched to on_data on a table whose slots are all taken, and they all
\* still are
C27_Witness ==
  /\ call.op = "send"
  /\ Len(call.out.invoked) = 1
  /\ call.out.invoked[1].member = "on_data"
  /\ \A i \in 1..NDN_DIRECT_FACE_CB_ENTRY_SIZE : SlotTaken(face, i)

\* the sizes the AES collaborator received from the last ndn_data_set_encrypted_content
\* are the plaintext length and the room left in the content buffer
EncryptSizesKept ==
  /\ U8(call.in.content_size) = call.in.content_size
  /\ U8(NDN_CONTENT_BUFFER_SIZE - call.out.payload_offset)
       = NDN_CONTENT_BUFFER_SIZE - call.out.payload_offset

\* the sizes the AES collaborator received from the last
\* ndn_data_parse_encrypted_content are the payload length read and that length less
\* one block, which is not negative
DecryptSizesKept ==
  /\ dres.decrypt_size = dres.payload_length
  /\ dres.payload_length >= NDN_AES_BLOCK_SIZE
  /\ dres.decrypt_output_size = dres.payload_length - NDN_AES_BLOCK_SIZE
  /\ dres.content_used_size = dres.payload_length - NDN_AES_BLOCK_SIZE

\* C28: for every plaintext length ndn_data_set_encrypted_content admits and every
\* payload length ndn_data_parse_encrypted_content reads, the sizes the AES collaborator
\* receives are the intended 32-bit values: the uint8_t parameters of
\* ndn_aes_cbc_encrypt and ndn_aes_cbc_decrypt do not reduce them modulo 256, and the
\* payload length less one block does not wrap below zero.
C28_AesSizesKept ==
  /\ (pc = "content_set" /\ call.rc = 0) => EncryptSizesKept
  /\ (pc \in {"content_parsed", "received_parsed"} /\ dres.rc = 0) => DecryptSizesKept

============================================================================
